---- MODULE Spec2Model ----
(***************************************************************************)
(* A model of the two middle-end passes of fmm: the CPS transformation of  *)
(* Source-convention function definitions (analysis/cps/source_function.rs)*)
(* and the C calling-convention transformation                             *)
(* (analysis/c_calling_convention.rs).  IR nodes are records tagged by a   *)
(* kind field; the passes are operators translated from the Rust code, and *)
(* the state machines below run them step by step on bounded input modules.*)
(***************************************************************************)
EXTENDS Integers, Sequences, FiniteSets, TLC

VARIABLES
    input,                 \* the module handed to the pass
    result_type,           \* CpsContext::result_type (the final result type RT)
    module,                \* the module being rewritten in place (cps) / built (c abi)
    pc,                    \* position of the driver loop
    index,                 \* index of the function definition being processed
    continuation_option,   \* the worklist of transform_block_recursively (0 or 1 element)
    local_variables,       \* local-variable environment of the current definition
    function_definitions,  \* Context::function_definitions (synthesized continuations)
    counter,               \* the name generator's counter
    round,                 \* 1: first application, 2: the pass applied to its own output
    first_output,          \* the module returned by the first application
    word_bytes,            \* the word size given to the C calling-convention pass
    result                 \* outcome of the C calling-convention pass

vars == <<input, result_type, module, pc, index, continuation_option, local_variables,
          function_definitions, counter, round, first_output, word_bytes, result>>

-----------------------------------------------------------------------------
(* Bounds of the model.                                                    *)

MaxLen == 3

-----------------------------------------------------------------------------
(* Types (types/*.rs).                                                     *)

Primitive(name) == [t |-> "prim", name |-> name]

Record(fields) == [t |-> "record", fields |-> fields]

Pointer(element) == [t |-> "ptr", element |-> element]

Function(arguments, result_, calling_convention) ==
    [t |-> "fn", arguments |-> arguments, result |-> result_,
     calling_convention |-> calling_convention]

F64 == Primitive("f64")

I64 == Primitive("i64")

Boolean == Primitive("bool")

void_type == Record(<<>>)

-----------------------------------------------------------------------------
(* Expressions, instructions, terminal instructions, blocks (ir/*.rs).     *)

Variable(name) == [e |-> "var", name |-> name]

Undefined(type) == [e |-> "undef", type |-> type]

PrimitiveValue(type, value) == [e |-> "prim", type |-> type, value |-> value]

RecordValue(type, fields) == [e |-> "record", type |-> type, fields |-> fields]

ArithmeticOperation(type, lhs, rhs) == [e |-> "add", type |-> type, lhs |-> lhs, rhs |-> rhs]

void_value == RecordValue(void_type, <<>>)

Call(type, function, arguments, name) ==
    [i |-> "call", type |-> type, function |-> function, arguments |-> arguments,
     name |-> name]

Load(type, pointer, name) == [i |-> "load", type |-> type, pointer |-> pointer, name |-> name]

Store(type, value, pointer) == [i |-> "store", type |-> type, value |-> value, pointer |-> pointer]

AllocateStack(type, name) == [i |-> "allocate_stack", type |-> type, name |-> name]

DeconstructRecord(type, record, field_index, name) ==
    [i |-> "deconstruct_record", type |-> type, record |-> record,
     field_index |-> field_index, name |-> name]

If(type, condition, then, else, name) ==
    [i |-> "if", type |-> type, condition |-> condition, then |-> then, else |-> else,
     name |-> name]

Return(type, expression) == [k |-> "return", type |-> type, expression |-> expression]

Branch(type, expression) == [k |-> "branch", type |-> type, expression |-> expression]

Unreachable == [k |-> "unreachable"]

Block(instructions, terminal_instruction) ==
    [instructions |-> instructions, terminal_instruction |-> terminal_instruction]

Argument(name, type) == [name |-> name, type |-> type]

FunctionDefinitionOptions(calling_convention, linkage, address_named) ==
    [calling_convention |-> calling_convention, linkage |-> linkage,
     address_named |-> address_named]

\* FunctionDefinitionOptions::new(): Source convention, external linkage, address named.
DefaultOptions == FunctionDefinitionOptions("Source", "External", TRUE)

FunctionDefinition(name, arguments, result_, body, options) ==
    [name |-> name, arguments |-> arguments, result_type |-> result_, body |-> body,
     options |-> options]

FunctionDeclaration(name, type) == [name |-> name, type |-> type]

Module(variable_declarations, function_declarations, variable_definitions, definitions) ==
    [variable_declarations |-> variable_declarations,
     function_declarations |-> function_declarations,
     variable_definitions |-> variable_definitions,
     function_definitions |-> definitions]

\* FunctionDefinition::type_(): the function type of a definition.
definition_type(definition) ==
    Function([j \in DOMAIN definition.arguments |-> definition.arguments[j].type],
             definition.result_type, definition.options.calling_convention)

-----------------------------------------------------------------------------
(* Sequence helpers.                                                       *)

RECURSIVE Flatten(_)
Flatten(seqs) == IF seqs = <<>> THEN <<>> ELSE Head(seqs) \o Flatten(Tail(seqs))

Insert(seq, position, element) ==
    SubSeq(seq, 1, position) \o <<element>> \o SubSeq(seq, position + 1, Len(seq))

Range(seq) == {seq[j] : j \in DOMAIN seq}

Contains(seq, element) == \E j \in DOMAIN seq : seq[j] = element

-----------------------------------------------------------------------------
(* Analyses used by the CPS pass (analysis/free_variable.rs,               *)
(* analysis/local_variable.rs).                                            *)

RECURSIVE expression_variables(_)
expression_variables(expression) ==
    CASE expression.e = "var" -> <<expression.name>>
      [] expression.e = "add" ->
            expression_variables(expression.lhs) \o expression_variables(expression.rhs)
      [] expression.e = "record" ->
            Flatten([j \in DOMAIN expression.fields |->
                        expression_variables(expression.fields[j])])
      [] OTHER -> <<>>

terminal_variables(terminal_instruction) ==
    IF terminal_instruction.k = "unreachable" THEN <<>>
    ELSE expression_variables(terminal_instruction.expression)

\* The result name an instruction binds, as a sequence of zero or one names.
instruction_name(instruction) ==
    IF "name" \in DOMAIN instruction THEN <<instruction.name>> ELSE <<>>

RECURSIVE add_names(_, _, _)
add_names(free, bound, names) ==
    IF names = <<>> THEN free
    ELSE LET name == Head(names)
         IN  add_names(IF name \in bound \/ Contains(free, name) THEN free
                       ELSE Append(free, name),
                       bound, Tail(names))

remove_name(free, name) == SelectSeq(free, LAMBDA other : other # name)

RECURSIVE free_variable_walk(_, _, _, _)
RECURSIVE instruction_variables(_)

\* free_variable::collect: the names referenced by the instructions and the terminal
\* instruction and not bound by them, in the order the walk first meets them.
free_variable_collect(instructions, terminal_instruction) ==
    free_variable_walk(instructions, terminal_instruction, <<>>, {})

instruction_variables(instruction) ==
    CASE instruction.i = "call" ->
            expression_variables(instruction.function)
                \o Flatten([j \in DOMAIN instruction.arguments |->
                               expression_variables(instruction.arguments[j])])
      [] instruction.i = "load" -> expression_variables(instruction.pointer)
      [] instruction.i = "store" ->
            expression_variables(instruction.value)
                \o expression_variables(instruction.pointer)
      [] instruction.i = "deconstruct_record" -> expression_variables(instruction.record)
      [] instruction.i = "if" ->
            expression_variables(instruction.condition)
                \o free_variable_collect(instruction.then.instructions,
                                         instruction.then.terminal_instruction)
                \o free_variable_collect(instruction.else.instructions,
                                         instruction.else.terminal_instruction)
      [] instruction.i = "push" ->
            expression_variables(instruction.stack)
                \o expression_variables(instruction.value)
      [] instruction.i = "pop" -> expression_variables(instruction.stack)
      [] OTHER -> <<>>

free_variable_walk(instructions, terminal_instruction, free, bound) ==
    IF instructions = <<>>
    THEN add_names(free, bound, terminal_variables(terminal_instruction))
    ELSE LET instruction == Head(instructions)
             referenced == add_names(free, bound, instruction_variables(instruction))
             binder == instruction_name(instruction)
         IN  IF binder = <<>>
             THEN free_variable_walk(Tail(instructions), terminal_instruction,
                                     referenced, bound)
             ELSE free_variable_walk(Tail(instructions), terminal_instruction,
                                     remove_name(referenced, binder[1]),
                                     bound \cup {binder[1]})

\* The type an instruction gives the name it binds.
instruction_result_type(instruction) ==
    CASE instruction.i = "call" -> instruction.type.result
      [] instruction.i = "allocate_stack" -> Pointer(instruction.type)
      [] instruction.i = "deconstruct_record" ->
            instruction.type.fields[instruction.field_index + 1]
      [] OTHER -> instruction.type

RECURSIVE local_variable_block(_)
local_variable_block(block) ==
    Flatten([j \in DOMAIN block.instructions |->
        LET instruction == block.instructions[j]
        IN  (IF instruction.i = "if"
             THEN local_variable_block(instruction.then)
                      \o local_variable_block(instruction.else)
             ELSE <<>>)
            \o (IF "name" \in DOMAIN instruction
                THEN <<Argument(instruction.name, instruction_result_type(instruction))>>
                ELSE <<>>)])

\* A name-to-type map built from (name, type) pairs; a later pair replaces an earlier one.
map_from_pairs(pairs) ==
    [name \in {pairs[j].name : j \in DOMAIN pairs} |->
        LET last == CHOOSE j \in DOMAIN pairs :
                        /\ pairs[j].name = name
                        /\ \A l \in DOMAIN pairs : pairs[l].name = name => l <= j
        IN  pairs[last].type]

\* local_variable::collect: every name bound in a definition with its declared type.
local_variable_collect(definition) ==
    map_from_pairs(definition.arguments \o local_variable_block(definition.body))

-----------------------------------------------------------------------------
(* Collaborators of the CPS pass (analysis/cps/stack.rs,                   *)
(* analysis/cps/continuation_type.rs, build/name_generator.rs).            *)

STACK_ARGUMENT_NAME == "_s"

CONTINUATION_ARGUMENT_NAME == "_k"

stack_type == Primitive("stack")

\* continuation_type::compile: fn(stack, R) -> RT under the tail convention.
continuation_type_compile(result_, final_result_type) ==
    Function(<<stack_type, result_>>, final_result_type, "Tail")

\* NameGenerator::generate of the CPS context: prefix "_k_" followed by the counter.
generate(count) == "_k_" \o ToString(count)

TypedExpression(expression, type) == [expression |-> expression, type |-> type]

build_variable(name, type) == TypedExpression(Variable(name), type)

\* build::record: a record value of the typed fields, with its record type.
build_record(fields) ==
    LET type == Record([j \in DOMAIN fields |-> fields[j].type])
    IN  TypedExpression(RecordValue(type, [j \in DOMAIN fields |-> fields[j].expression]),
                        type)

\* stack::push: push the element onto the stack; the instruction's own (unused) result
\* name is fetched from the name generator.
stack_push(context, stack, element) ==
    [context |-> [context EXCEPT !.counter = @ + 1],
     instructions |-> <<[i |-> "push", type |-> element.type, stack |-> stack.expression,
                         value |-> element.expression,
                         name |-> generate(context.counter)]>>]

\* stack::pop: pop a value of the given type; its name is fetched from the generator.
stack_pop(context, stack, type) ==
    [context |-> [context EXCEPT !.counter = @ + 1],
     instructions |-> <<[i |-> "pop", type |-> type, stack |-> stack.expression,
                         name |-> generate(context.counter)]>>,
     value |-> build_variable(generate(context.counter), type)]

-----------------------------------------------------------------------------
(* The CPS pass over Source function definitions                           *)
(* (analysis/cps/source_function.rs).  A context is the record             *)
(* [counter, function_definitions, result_type]: the name generator's      *)
(* counter, Context::function_definitions and CpsContext::result_type.     *)

\* The struct Continuation.
Continuation(name, argument, environment, block) ==
    [name |-> name, argument |-> argument, environment |-> environment, block |-> block]

\* transform_call with the two inserts in the wrong order: continuation first.
transform_call_swapped(call, continuation_name, result_name) ==
    [call EXCEPT
        !.arguments = Insert(Insert(@, 0, Variable(continuation_name)),
                             1, Variable(STACK_ARGUMENT_NAME)),
        !.name = result_name]

\* transform_call pushing the two arguments after the user arguments.
transform_call_appended(call, continuation_name, result_name) ==
    [call EXCEPT
        !.arguments = @ \o <<Variable(STACK_ARGUMENT_NAME), Variable(continuation_name)>>,
        !.name = result_name]

transform_call(call, continuation_name, result_name) ==
    [call EXCEPT
        !.arguments = Insert(Insert(@, 0, Variable(STACK_ARGUMENT_NAME)),
                             1, Variable(continuation_name)),
        !.name = result_name]

get_environment_record(environment) ==
    build_record([j \in DOMAIN environment |->
                     build_variable(environment[j].name, environment[j].type)])

\* get_continuation_environment without the filter on the call's own result name.
get_continuation_environment_unfiltered(call, instructions, terminal_instruction, locals) ==
    LET names == <<CONTINUATION_ARGUMENT_NAME>>
                     \o free_variable_collect(instructions, terminal_instruction)
        known == SelectSeq(names, LAMBDA name : name \in DOMAIN locals)
    IN  [j \in DOMAIN known |-> Argument(known[j], locals[known[j]])]

\* Lines 257-277: `_k`, then the free variables of what follows the call, without the
\* call's result name, each looked up in the local variables (a name that is not a local
\* variable is left out).
get_continuation_environment(call, instructions, terminal_instruction, locals) ==
    LET names == SelectSeq(<<CONTINUATION_ARGUMENT_NAME>>
                               \o free_variable_collect(instructions, terminal_instruction),
                           LAMBDA name : name # call.name)
        known == SelectSeq(names, LAMBDA name : name \in DOMAIN locals)
    IN  [j \in DOMAIN known |-> Argument(known[j], locals[known[j]])]

\* create_continuation that leaves the default (Source) calling convention.
create_continuation_source(context, continuation) ==
    LET environment_record_type == get_environment_record(continuation.environment).type
        popped == stack_pop(context, build_variable(STACK_ARGUMENT_NAME, stack_type),
                            environment_record_type)
        instructions ==
            popped.instructions
                \o [j \in DOMAIN continuation.environment |->
                       DeconstructRecord(environment_record_type, popped.value.expression,
                                         j - 1, continuation.environment[j].name)]
                \o continuation.block.instructions
    IN  [popped.context EXCEPT
            !.function_definitions =
                Append(@, FunctionDefinition(
                              continuation.name,
                              <<Argument(STACK_ARGUMENT_NAME, stack_type),
                                continuation.argument>>,
                              context.result_type,
                              Block(instructions, continuation.block.terminal_instruction),
                              FunctionDefinitionOptions("Source", "Internal", FALSE)))]

\* create_continuation numbering the fields it deconstructs from the last one.
create_continuation_reversed_fields(context, continuation) ==
    LET environment_record_type == get_environment_record(continuation.environment).type
        popped == stack_pop(context, build_variable(STACK_ARGUMENT_NAME, stack_type),
                            environment_record_type)
        instructions ==
            popped.instructions
                \o [j \in DOMAIN continuation.environment |->
                       DeconstructRecord(environment_record_type, popped.value.expression,
                                         Len(continuation.environment) - j,
                                         continuation.environment[j].name)]
                \o continuation.block.instructions
    IN  [popped.context EXCEPT
            !.function_definitions =
                Append(@, FunctionDefinition(
                              continuation.name,
                              <<Argument(STACK_ARGUMENT_NAME, stack_type),
                                continuation.argument>>,
                              context.result_type,
                              Block(instructions, continuation.block.terminal_instruction),
                              FunctionDefinitionOptions("Tail", "Internal", FALSE)))]

\* create_continuation putting the instructions of the block before the deconstructions.
create_continuation_rest_first(context, continuation) ==
    LET environment_record_type == get_environment_record(continuation.environment).type
        popped == stack_pop(context, build_variable(STACK_ARGUMENT_NAME, stack_type),
                            environment_record_type)
        instructions ==
            popped.instructions
                \o continuation.block.instructions
                \o [j \in DOMAIN continuation.environment |->
                       DeconstructRecord(environment_record_type, popped.value.expression,
                                         j - 1, continuation.environment[j].name)]
    IN  [popped.context EXCEPT
            !.function_definitions =
                Append(@, FunctionDefinition(
                              continuation.name,
                              <<Argument(STACK_ARGUMENT_NAME, stack_type),
                                continuation.argument>>,
                              context.result_type,
                              Block(instructions, continuation.block.terminal_instruction),
                              FunctionDefinitionOptions("Tail", "Internal", FALSE)))]

\* create_continuation with the default linkage and address_named and Tail set.
create_continuation_external(context, continuation) ==
    LET environment_record_type == get_environment_record(continuation.environment).type
        popped == stack_pop(context, build_variable(STACK_ARGUMENT_NAME, stack_type),
                            environment_record_type)
        instructions ==
            popped.instructions
                \o [j \in DOMAIN continuation.environment |->
                       DeconstructRecord(environment_record_type, popped.value.expression,
                                         j - 1, continuation.environment[j].name)]
                \o continuation.block.instructions
    IN  [popped.context EXCEPT
            !.function_definitions =
                Append(@, FunctionDefinition(
                              continuation.name,
                              <<Argument(STACK_ARGUMENT_NAME, stack_type),
                                continuation.argument>>,
                              context.result_type,
                              Block(instructions, continuation.block.terminal_instruction),
                              FunctionDefinitionOptions("Tail", "External", TRUE)))]

create_continuation(context, continuation) ==
    LET environment_record_type == get_environment_record(continuation.environment).type
        popped == stack_pop(context, build_variable(STACK_ARGUMENT_NAME, stack_type),
                            environment_record_type)
        instructions ==
            popped.instructions
                \o [j \in DOMAIN continuation.environment |->
                       DeconstructRecord(environment_record_type, popped.value.expression,
                                         j - 1, continuation.environment[j].name)]
                \o continuation.block.instructions
    IN  [popped.context EXCEPT
            !.function_definitions =
                Append(@, FunctionDefinition(
                              continuation.name,
                              <<Argument(STACK_ARGUMENT_NAME, stack_type),
                                continuation.argument>>,
                              context.result_type,
                              Block(instructions, continuation.block.terminal_instruction),
                              FunctionDefinitionOptions("Tail", "Internal", FALSE)))]

\* The tail-position test treating every call before a return as a tail call.
is_tail_call_any_return(call, rest_instructions, terminal_instruction) ==
    /\ rest_instructions = <<>>
    /\ terminal_instruction.k = "return"

\* The test that finds no call in tail position, so that every Source call splits.
is_tail_call_never(call, rest_instructions, terminal_instruction) == FALSE

\* Lines 120-125: no instruction is left and the terminal instruction returns the
\* variable that names the call's result.
is_tail_call(call, rest_instructions, terminal_instruction) ==
    /\ rest_instructions = <<>>
    /\ terminal_instruction.k = "return"
    /\ terminal_instruction.expression = Variable(call.name)

\* The rewrite of the final return that leaves the return type of the block as it was.
transform_return_keeps_type(context, done, terminal_instruction) ==
    IF terminal_instruction.k = "return"
    THEN LET result_name == generate(context.counter)
         IN  [context |-> [context EXCEPT !.counter = @ + 1],
              block |-> Block(
                  Append(done,
                         Call(continuation_type_compile(terminal_instruction.type,
                                                        context.result_type),
                              Variable(CONTINUATION_ARGUMENT_NAME),
                              <<Variable(STACK_ARGUMENT_NAME),
                                terminal_instruction.expression>>,
                              result_name)),
                  Return(terminal_instruction.type, Variable(result_name))),
              continuation |-> <<>>]
    ELSE [context |-> context, block |-> Block(done, terminal_instruction),
          continuation |-> <<>>]

\* transform_block without the rewrite of the final return.
transform_return_skipped(context, done, terminal_instruction) ==
    [context |-> context, block |-> Block(done, terminal_instruction),
     continuation |-> <<>>]

\* Lines 173-190: once every instruction is pushed back, a terminal return(R, e) becomes
\* the call of `_k` with `_s` and e, bound to a generated name, and the return of that
\* name with the final result type; any other terminal instruction is kept.
transform_return(context, done, terminal_instruction) ==
    IF terminal_instruction.k = "return"
    THEN LET result_name == generate(context.counter)
         IN  [context |-> [context EXCEPT !.counter = @ + 1],
              block |-> Block(
                  Append(done,
                         Call(continuation_type_compile(terminal_instruction.type,
                                                        context.result_type),
                              Variable(CONTINUATION_ARGUMENT_NAME),
                              <<Variable(STACK_ARGUMENT_NAME),
                                terminal_instruction.expression>>,
                              result_name)),
                  Return(context.result_type, Variable(result_name))),
              continuation |-> <<>>]
    ELSE [context |-> context, block |-> Block(done, terminal_instruction),
          continuation |-> <<>>]

RECURSIVE transform_instructions(_, _, _, _, _)
RECURSIVE transform_worklist(_, _, _)

\* transform_block: rewrite a block up to its first Source call; the result is the
\* context, the rewritten block and the continuation split off, if any.
transform_block(context, block, locals) ==
    transform_instructions(context, <<>>, block.instructions, block.terminal_instruction,
                           locals)

\* transform_block_recursively: transform a block, then every continuation split off in
\* turn; the result is the context and the rewritten block.
transform_block_recursively(context, block, locals) ==
    LET first == transform_block(context, block, locals)
    IN  [context |-> transform_worklist(first.context, first.continuation, locals),
         block |-> first.block]

\* The while loop of transform_block_recursively.
transform_worklist(context, continuation, locals) ==
    IF continuation = <<>> THEN context
    ELSE LET next == transform_block(context, continuation[1].block, locals)
             created == create_continuation(
                            next.context, [continuation[1] EXCEPT !.block = next.block])
         IN  transform_worklist(created, next.continuation, locals)

\* The body of transform_block: `done` are the instructions already pushed to the block,
\* `rest` the instructions not yet visited.
transform_instructions(context, done, rest, terminal_instruction, locals) ==
    IF rest = <<>>
    THEN transform_return(context, done, terminal_instruction)
    ELSE LET instruction == Head(rest)
             rest_instructions == Tail(rest)
         IN  IF instruction.i = "call" /\ instruction.type.calling_convention = "Source"
             THEN LET result_name == generate(context.counter)
                      generated == [context EXCEPT !.counter = @ + 1]
                      terminal == Return(context.result_type, Variable(result_name))
                  IN  IF is_tail_call(instruction, rest_instructions, terminal_instruction)
                      THEN [context |-> generated,
                            block |-> Block(
                                Append(done, transform_call(instruction,
                                                            CONTINUATION_ARGUMENT_NAME,
                                                            result_name)),
                                terminal),
                            continuation |-> <<>>]
                      ELSE LET environment ==
                                   get_continuation_environment(
                                       instruction, rest_instructions,
                                       terminal_instruction, locals)
                               pushed == stack_push(
                                             generated,
                                             build_variable(STACK_ARGUMENT_NAME, stack_type),
                                             get_environment_record(environment))
                               name == generate(pushed.context.counter)
                               argument == Argument(instruction.name, instruction.type.result)
                           IN  [context |-> [pushed.context EXCEPT !.counter = @ + 1],
                                block |-> Block(
                                    done \o pushed.instructions
                                         \o <<transform_call(instruction, name, result_name)>>,
                                    terminal),
                                continuation |->
                                    <<Continuation(name, argument, environment,
                                                   Block(rest_instructions,
                                                         terminal_instruction))>>]
             ELSE IF instruction.i = "if"
             THEN LET then == transform_block_recursively(context, instruction.then, locals)
                      else == transform_block_recursively(then.context, instruction.else,
                                                          locals)
                  IN  transform_instructions(
                          else.context,
                          Append(done, [instruction EXCEPT !.then = then.block,
                                                           !.else = else.block]),
                          rest_instructions, terminal_instruction, locals)
             ELSE transform_instructions(context, Append(done, instruction),
                                         rest_instructions, terminal_instruction, locals)

\* transform_function_signature pushing the two arguments after the user arguments.
transform_function_signature_appended(definition, final_result_type) ==
    LET continuation_type ==
            continuation_type_compile(definition.result_type, final_result_type)
    IN  [definition EXCEPT
            !.arguments = @ \o <<Argument(STACK_ARGUMENT_NAME, stack_type),
                                 Argument(CONTINUATION_ARGUMENT_NAME, continuation_type)>>,
            !.result_type = final_result_type,
            !.options = [@ EXCEPT !.calling_convention = "Tail"]]

\* transform_function_signature without the change of calling convention.
transform_function_signature_keeps_convention(definition, final_result_type) ==
    LET continuation_type ==
            continuation_type_compile(definition.result_type, final_result_type)
    IN  [definition EXCEPT
            !.arguments = Insert(Insert(@, 0, Argument(STACK_ARGUMENT_NAME, stack_type)),
                                 1, Argument(CONTINUATION_ARGUMENT_NAME, continuation_type)),
            !.result_type = final_result_type]

\* The part of transform_function_definition before the body is transformed: the two
\* leading arguments, the result type and the calling convention.
transform_function_signature(definition, final_result_type) ==
    LET continuation_type ==
            continuation_type_compile(definition.result_type, final_result_type)
    IN  [definition EXCEPT
            !.arguments = Insert(Insert(@, 0, Argument(STACK_ARGUMENT_NAME, stack_type)),
                                 1, Argument(CONTINUATION_ARGUMENT_NAME, continuation_type)),
            !.result_type = final_result_type,
            !.options = [@ EXCEPT !.calling_convention = "Tail"]]

\* The guard dropped: every definition is transformed.
is_source_definition_any(definition) == TRUE

\* The guard of transform_function_definition (line 47).
is_source_definition(definition) ==
    definition_type(definition).calling_convention = "Source"

\* The local-variable map transform_function_definition hands to the block transform.
transform_function_locals(definition, original_result_type, final_result_type) ==
    LET collected == local_variable_collect(definition)
        continuation_type ==
            continuation_type_compile(original_result_type, final_result_type)
    IN  [name \in DOMAIN collected \cup {CONTINUATION_ARGUMENT_NAME} |->
            IF name = CONTINUATION_ARGUMENT_NAME THEN continuation_type
            ELSE collected[name]]

-----------------------------------------------------------------------------
(* Input modules of the CPS pass: one main function definition whose body  *)
(* is a well-scoped block of at most MaxLen instructions, optionally       *)
(* followed by a second definition.                                        *)

source_call_f(name) == Call(Function(<<>>, F64, "Source"), Variable("f"), <<>>, name)

BasicInstructions ==
    { source_call_f("p"),
      Call(Function(<<F64>>, F64, "Source"), Variable("g"), <<Variable("x")>>, "q"),
      Call(Function(<<>>, F64, "Target"), Variable("h"), <<>>, "t"),
      Load(F64, Undefined(Pointer(F64)), "y"),
      Store(F64, Variable("p"), Undefined(Pointer(F64))) }

ThenBlocks ==
    { Block(<<>>, Unreachable),
      Block(<<source_call_f("r")>>, Return(F64, Variable("r"))),
      Block(<<source_call_f("r"), Store(F64, Variable("r"), Undefined(Pointer(F64)))>>,
            Return(F64, Variable("x"))),
      Block(<<source_call_f("r")>>, Branch(F64, Variable("r"))) }

ElseBlocks ==
    { Block(<<>>, Unreachable),
      Block(<<>>, Branch(F64, Undefined(F64))),
      Block(<<>>, Return(F64, Variable("x"))) }

\* An if whose then arm holds the calls, and one whose arms only branch.
IfInstructions ==
    { If(F64, PrimitiveValue(Boolean, TRUE), then, Block(<<>>, Unreachable), "c") :
        then \in ThenBlocks }
    \cup { If(F64, PrimitiveValue(Boolean, TRUE), Block(<<>>, Branch(F64, Variable("x"))),
              else, "c") : else \in ElseBlocks }

TerminalInstructions ==
    { Return(F64, Variable("p")),
      Return(F64, Variable("x")),
      Return(F64, ArithmeticOperation(F64, Variable("y"), Variable("q"))),
      Unreachable }

InstructionSequences ==
    UNION { { instructions \in [1..n -> BasicInstructions \cup IfInstructions] :
                /\ \A j, l \in 1..n : j # l => instructions[j] # instructions[l]
                /\ Cardinality({j \in 1..n : instructions[j].i = "if"}) <= 1 } :
            n \in 0..MaxLen }

GlobalNames == {"f", "g", "h"}

RECURSIVE well_scoped(_, _, _)
well_scoped(instructions, terminal_instruction, bound) ==
    IF instructions = <<>>
    THEN Range(terminal_variables(terminal_instruction)) \subseteq bound
    ELSE LET instruction == Head(instructions)
         IN  /\ IF instruction.i = "if"
                THEN /\ Range(expression_variables(instruction.condition)) \subseteq bound
                     /\ well_scoped(instruction.then.instructions,
                                    instruction.then.terminal_instruction, bound)
                     /\ well_scoped(instruction.else.instructions,
                                    instruction.else.terminal_instruction, bound)
                ELSE Range(instruction_variables(instruction)) \subseteq bound
             /\ well_scoped(Tail(instructions), terminal_instruction,
                            bound \cup Range(instruction_name(instruction)))

ArgumentLists == { <<>>, <<Argument("x", F64)>> }

CallingConventions == {"Source", "Target"}

MainDefinitions ==
    { FunctionDefinition("f", arguments, F64, Block(instructions, terminal_instruction),
                         [DefaultOptions EXCEPT !.calling_convention = convention]) :
        arguments \in ArgumentLists, instructions \in InstructionSequences,
        terminal_instruction \in TerminalInstructions,
        convention \in CallingConventions }

WellScopedDefinitions ==
    { definition \in MainDefinitions :
        well_scoped(definition.body.instructions, definition.body.terminal_instruction,
                    GlobalNames \cup {definition.arguments[j].name :
                                         j \in DOMAIN definition.arguments}) }

SecondDefinitions ==
    { FunctionDefinition("g", <<Argument("a", F64)>>, F64,
                         Block(<<source_call_f("b")>>, Return(F64, Variable("a"))),
                         DefaultOptions),
      FunctionDefinition("h", <<>>, F64,
                         Block(<<source_call_f("b")>>, Return(F64, Variable("b"))),
                         [DefaultOptions EXCEPT !.calling_convention = "Target"]),
      FunctionDefinition("k", <<Argument("_s", stack_type)>>, void_type,
                         Block(<<>>, Unreachable),
                         [DefaultOptions EXCEPT !.calling_convention = "Tail"]) }

\* Modules of two definitions pair a main definition of at most one instruction with a
\* second definition, in either order.
ShortDefinitions ==
    { definition \in WellScopedDefinitions : Len(definition.body.instructions) <= 1 }

\* A definition whose argument has a capital letter for its name, and the definition of
\* the test transform_two_calls_with_free_variables_shared_and_dropped.
CapturingDefinitions ==
    { FunctionDefinition("f", <<Argument("X", F64)>>, F64,
                         Block(<<source_call_f("p")>>, Return(F64, Variable("X"))),
                         DefaultOptions),
      FunctionDefinition("f", <<Argument("x", F64), Argument("y", F64)>>, F64,
                         Block(<< source_call_f("p"),
                                  Call(Function(<<F64>>, F64, "Source"), Variable("g"),
                                       <<Variable("y")>>, "q") >>,
                               Return(F64, Variable("x"))),
                         DefaultOptions) }

CpsModules ==
    {Module(<<>>, <<>>, <<>>, <<>>)}
        \cup { Module(<<>>, <<>>, <<>>, <<definition>>) :
                  definition \in CapturingDefinitions }
        \cup { Module(<<>>, <<>>, <<>>, <<definition>>) :
                  definition \in WellScopedDefinitions }
        \cup { Module(<<>>, <<>>, <<>>, <<definition, second>>) :
                  definition \in ShortDefinitions, second \in SecondDefinitions }
        \cup { Module(<<>>, <<>>, <<>>, <<second, definition>>) :
                  definition \in ShortDefinitions, second \in SecondDefinitions }

FinalResultTypes == {void_type, I64}

-----------------------------------------------------------------------------
(* The CPS pass as a state machine: transform (source_function.rs 26-41)   *)
(* visits the definitions in order; a Source definition is rewritten in    *)
(* place (43-79) and its worklist of continuations is run (81-94).         *)

\* Outcomes of a pass: none yet, Ok(module), or an error of a kind.
NoResult == [ok |-> FALSE, error |-> "none"]

Ok(returned) == [ok |-> TRUE, module |-> returned]

Err(kind, value) == [ok |-> FALSE, error |-> kind, value |-> value]

\* A context whose name generator starts again whenever the context is used.
cps_context_restarted ==
    [counter |-> 0, function_definitions |-> function_definitions,
     result_type |-> result_type]

cps_context ==
    [counter |-> counter, function_definitions |-> function_definitions,
     result_type |-> result_type]

InitCps ==
    /\ input \in CpsModules
    /\ result_type \in FinalResultTypes
    /\ module = input
    /\ pc = "definitions"
    /\ index = 1
    /\ continuation_option = <<>>
    /\ local_variables = <<>>
    /\ function_definitions = <<>>
    /\ counter = 0
    /\ round = 1
    /\ first_output = input
    /\ word_bytes = 0
    /\ result = NoResult

\* transform_function_definition on a definition that is not Source: the early return.
SkipFunctionDefinition ==
    /\ pc = "definitions"
    /\ index <= Len(module.function_definitions)
    /\ ~is_source_definition(module.function_definitions[index])
    /\ index' = index + 1
    /\ UNCHANGED <<input, result_type, module, pc, continuation_option, local_variables,
                   function_definitions, counter, round, first_output, word_bytes, result>>

\* transform_function_definition on a Source definition, up to the first transform_block
\* of transform_block_recursively.
TransformFunctionDefinition ==
    /\ pc = "definitions"
    /\ index <= Len(module.function_definitions)
    /\ is_source_definition(module.function_definitions[index])
    /\ LET definition == module.function_definitions[index]
           rewritten == transform_function_signature(definition, result_type)
           locals == transform_function_locals(rewritten, definition.result_type,
                                               result_type)
           first == transform_block(cps_context, rewritten.body, locals)
       IN  /\ module' = [module EXCEPT !.function_definitions[index] =
                                           [rewritten EXCEPT !.body = first.block]]
           /\ local_variables' = locals
           /\ continuation_option' = first.continuation
           /\ function_definitions' = first.context.function_definitions
           /\ counter' = first.context.counter
    /\ pc' = "worklist"
    /\ UNCHANGED <<input, result_type, index, round, first_output, word_bytes, result>>

\* One iteration of the while loop of transform_block_recursively.
TransformContinuation ==
    /\ pc = "worklist"
    /\ continuation_option # <<>>
    /\ LET continuation == continuation_option[1]
           next == transform_block(cps_context, continuation.block, local_variables)
           created == create_continuation(next.context,
                                          [continuation EXCEPT !.block = next.block])
       IN  /\ continuation_option' = next.continuation
           /\ function_definitions' = created.function_definitions
           /\ counter' = created.counter
    /\ UNCHANGED <<input, result_type, module, pc, index, local_variables, round,
                   first_output, word_bytes, result>>

\* The worklist is empty: transform_function_definition returns.
FinishFunctionDefinition ==
    /\ pc = "worklist"
    /\ continuation_option = <<>>
    /\ pc' = "definitions"
    /\ index' = index + 1
    /\ UNCHANGED <<input, result_type, module, continuation_option, local_variables,
                   function_definitions, counter, round, first_output, word_bytes, result>>

\* After the loop, transform appends the synthesized definitions to the module.
ExtendModule ==
    /\ pc = "definitions"
    /\ index > Len(module.function_definitions)
    /\ module' = [module EXCEPT !.function_definitions = @ \o function_definitions]
    /\ pc' = "done"
    /\ UNCHANGED <<input, result_type, index, continuation_option, local_variables,
                   function_definitions, counter, round, first_output, word_bytes, result>>

\* The caller applies the pass, with a fresh context, to the module it returned.
Reapply ==
    /\ pc = "done"
    /\ round = 1
    /\ round' = 2
    /\ first_output' = module
    /\ pc' = "definitions"
    /\ index' = 1
    /\ continuation_option' = <<>>
    /\ local_variables' = <<>>
    /\ function_definitions' = <<>>
    /\ counter' = 0
    /\ UNCHANGED <<input, result_type, module, word_bytes, result>>

NextCps ==
    \/ SkipFunctionDefinition
    \/ TransformFunctionDefinition
    \/ TransformContinuation
    \/ FinishFunctionDefinition
    \/ ExtendModule
    \/ Reapply

SpecCps == InitCps /\ [][NextCps]_vars

\* The two steps that run transform_block change function_definitions or pc, so each is
\* enabled exactly when its guard holds; their weak fairness is written with the guard in
\* the place of ENABLED.
TransformFunctionDefinitionFair ==
    \/ []<>~( /\ pc = "definitions"
              /\ index <= Len(module.function_definitions)
              /\ is_source_definition(module.function_definitions[index]) )
    \/ []<><<TransformFunctionDefinition>>_vars

TransformContinuationFair ==
    \/ []<>~(pc = "worklist" /\ continuation_option # <<>>)
    \/ []<><<TransformContinuation>>_vars

\* The pass is one sequential computation: a step that can be taken is taken.
SpecCpsLive ==
    /\ InitCps /\ [][NextCps]_vars
    /\ WF_vars(SkipFunctionDefinition)
    /\ WF_vars(FinishFunctionDefinition)
    /\ WF_vars(ExtendModule)
    /\ WF_vars(Reapply)
    /\ TransformFunctionDefinitionFair
    /\ TransformContinuationFair

\* The position of the first Source call among the instructions of a block, 0 if none:
\* the match arm of transform_block at lines 106-107.
first_source_call(instructions) ==
    IF \E j \in DOMAIN instructions :
           instructions[j].i = "call" /\ instructions[j].type.calling_convention = "Source"
    THEN CHOOSE j \in DOMAIN instructions :
             /\ instructions[j].i = "call"
             /\ instructions[j].type.calling_convention = "Source"
             /\ \A l \in 1..(j - 1) :
                   ~(instructions[l].i = "call"
                         /\ instructions[l].type.calling_convention = "Source")
    ELSE 0

\* The first Source call of the block is not in tail position (lines 120-125), so
\* transform_block reaches stack::push.
splits_at_first_source_call(block) ==
    LET position == first_source_call(block.instructions)
    IN  /\ position > 0
        /\ ~is_tail_call(block.instructions[position],
                         SubSeq(block.instructions, position + 1, Len(block.instructions)),
                         block.terminal_instruction)

\* The block as transform_block leaves it when stack::push returns an error (the `?` of
\* line 143): the instructions before the call have been pushed back, the terminal
\* instruction has been replaced (lines 111-118), the call and the rest are dropped.
transform_block_push_error(context, block, locals) ==
    LET position == first_source_call(block.instructions)
        before == transform_instructions(context, <<>>,
                                         SubSeq(block.instructions, 1, position - 1),
                                         Unreachable, locals)
    IN  Block(before.block.instructions,
              Return(context.result_type, Variable(generate(before.context.counter))))

\* transform_function_definition on a Source definition whose stack::push returns a
\* build error: the error is propagated by the `?` of lines 76 and 33, with the
\* definition already rewritten in place and nothing appended to the module.
PushFails ==
    /\ pc = "definitions"
    /\ index <= Len(module.function_definitions)
    /\ is_source_definition(module.function_definitions[index])
    /\ LET definition == module.function_definitions[index]
           rewritten == transform_function_signature(definition, result_type)
           locals == transform_function_locals(rewritten, definition.result_type,
                                               result_type)
       IN  /\ splits_at_first_source_call(rewritten.body)
           /\ module' = [module EXCEPT !.function_definitions[index] =
                             [rewritten EXCEPT !.body =
                                 transform_block_push_error(cps_context, @, locals)]]
    /\ result' = Err("Build", "push")
    /\ pc' = "failed"
    /\ UNCHANGED <<input, result_type, index, continuation_option, local_variables,
                   function_definitions, counter, round, first_output, word_bytes>>

NextCpsError ==
    \/ SkipFunctionDefinition
    \/ TransformFunctionDefinition
    \/ TransformContinuation
    \/ FinishFunctionDefinition
    \/ ExtendModule
    \/ Reapply
    \/ PushFails

\* The CPS pass with the build error of stack::push as a possible outcome.
SpecCpsError == InitCps /\ [][NextCpsError]_vars

-----------------------------------------------------------------------------
(* Collaborators of the C calling-convention pass                          *)
(* (analysis/c_calling_convention/type_.rs, function_declaration.rs,       *)
(* function_definition.rs, analysis/type_size.rs, analysis/type_check.rs). *)

Max(a, b) == IF a >= b THEN a ELSE b

Min(a, b) == IF a <= b THEN a ELSE b

RECURSIVE calculate_alignment(_, _)
calculate_alignment(type, word) ==
    CASE type.t = "prim" ->
            (CASE type.name \in {"i64", "f64"} -> 8
               [] type.name \in {"i32", "f32"} -> 4
               [] OTHER -> 1)
      [] type.t = "record" ->
            IF type.fields = <<>> THEN 1
            ELSE Max(calculate_alignment(Head(type.fields), word),
                     calculate_alignment(Record(Tail(type.fields)), word))
      [] OTHER -> word

RECURSIVE calculate_size(_, _)
RECURSIVE calculate_record_size(_, _, _)

\* type_size::calculate_size: the size of a type in bytes for a word size.
calculate_size(type, word) ==
    CASE type.t = "prim" -> calculate_alignment(type, word)
      [] type.t = "record" ->
            LET alignment == calculate_alignment(type, word)
                size == calculate_record_size(type.fields, word, 0)
            IN  ((size + alignment - 1) \div alignment) * alignment
      [] OTHER -> word

calculate_record_size(fields, word, offset) ==
    IF fields = <<>> THEN offset
    ELSE LET alignment == calculate_alignment(Head(fields), word)
             aligned == ((offset + alignment - 1) \div alignment) * alignment
         IN  calculate_record_size(Tail(fields), word,
                                   aligned + calculate_size(Head(fields), word))

\* A record result is returned in memory when it does not fit in two words: a record of
\* two 64-bit integers is returned in registers for word size 8, one of three is not.
is_memory_class(word, type) ==
    /\ type.t = "record"
    /\ calculate_size(type, word) > 2 * word

\* type_::transform_function: the function type with the result passed through a
\* trailing pointer argument.
type_transform_function(word, function) ==
    IF function.calling_convention = "Target" /\ is_memory_class(word, function.result)
    THEN Function(Append(function.arguments, Pointer(function.result)), void_type,
                  function.calling_convention)
    ELSE function

function_declaration_transform(word, declaration) ==
    FunctionDeclaration(declaration.name, type_transform_function(word, declaration.type))

RECURSIVE transform_return_block(_, _)

\* The rewrite of a block of a memory-returning definition: each return(R, e), also in
\* the arms of an if, becomes a store of e through the pointer and return(void, void).
transform_return_block(block, pointer) ==
    LET instructions ==
            [j \in DOMAIN block.instructions |->
                LET instruction == block.instructions[j]
                IN  IF instruction.i = "if"
                    THEN [instruction EXCEPT
                             !.then = transform_return_block(@, pointer),
                             !.else = transform_return_block(@, pointer)]
                    ELSE instruction]
        terminal_instruction == block.terminal_instruction
    IN  IF terminal_instruction.k = "return"
        THEN Block(Append(instructions,
                          Store(terminal_instruction.type, terminal_instruction.expression,
                                pointer.expression)),
                   Return(void_type, void_value))
        ELSE Block(instructions, terminal_instruction)

\* function_definition::transform: the out-parameter `{name}.p`, the void result and the
\* rewritten returns of a memory-returning Target definition.
function_definition_transform(word, definition) ==
    IF /\ definition.options.calling_convention = "Target"
       /\ is_memory_class(word, definition.result_type)
    THEN LET pointer == build_variable(definition.name \o ".p",
                                       Pointer(definition.result_type))
         IN  FunctionDefinition(
                 definition.name,
                 Append(definition.arguments,
                        Argument(pointer.expression.name, pointer.type)),
                 void_type,
                 transform_return_block(definition.body, pointer),
                 definition.options)
    ELSE definition

ErrorType == [t |-> "error"]

RECURSIVE check_expression(_, _)

\* The type type_check infers for an expression, ErrorType when it is ill-typed.
check_expression(variables, expression) ==
    CASE expression.e = "var" ->
            IF expression.name \in DOMAIN variables THEN variables[expression.name]
            ELSE ErrorType
      [] expression.e = "add" ->
            IF /\ check_expression(variables, expression.lhs) = expression.type
               /\ check_expression(variables, expression.rhs) = expression.type
            THEN expression.type ELSE ErrorType
      [] expression.e = "record" ->
            IF /\ expression.type.t = "record"
               /\ Len(expression.fields) = Len(expression.type.fields)
               /\ \A j \in DOMAIN expression.fields :
                     check_expression(variables, expression.fields[j])
                         = expression.type.fields[j]
            THEN expression.type ELSE ErrorType
      [] OTHER -> expression.type

RECURSIVE check_block(_, _, _, _)

check_instruction(variables, instruction, return_type) ==
    CASE instruction.i = "call" ->
            /\ instruction.type.t = "fn"
            /\ check_expression(variables, instruction.function) = instruction.type
            /\ Len(instruction.arguments) = Len(instruction.type.arguments)
            /\ \A j \in DOMAIN instruction.arguments :
                  check_expression(variables, instruction.arguments[j])
                      = instruction.type.arguments[j]
      [] instruction.i = "load" ->
            check_expression(variables, instruction.pointer) = Pointer(instruction.type)
      [] instruction.i = "store" ->
            /\ check_expression(variables, instruction.value) = instruction.type
            /\ check_expression(variables, instruction.pointer) = Pointer(instruction.type)
      [] instruction.i = "deconstruct_record" ->
            /\ instruction.type.t = "record"
            /\ check_expression(variables, instruction.record) = instruction.type
            /\ instruction.field_index < Len(instruction.type.fields)
      [] instruction.i = "if" ->
            /\ check_expression(variables, instruction.condition) = Boolean
            /\ check_block(variables, instruction.then, return_type, <<instruction.type>>)
            /\ check_block(variables, instruction.else, return_type, <<instruction.type>>)
      [] OTHER -> TRUE

\* A block is well typed: its instructions in order, each binding its name for those
\* that follow, and its terminal against the function's result type or, in the arm of
\* an if (branch_type is then a one-element sequence), the type of the if.
check_block(variables, block, return_type, branch_type) ==
    IF block.instructions = <<>>
    THEN LET terminal_instruction == block.terminal_instruction
         IN  CASE terminal_instruction.k = "return" ->
                     /\ terminal_instruction.type = return_type
                     /\ check_expression(variables, terminal_instruction.expression)
                            = return_type
               [] terminal_instruction.k = "branch" ->
                     /\ branch_type = <<terminal_instruction.type>>
                     /\ check_expression(variables, terminal_instruction.expression)
                            = terminal_instruction.type
               [] OTHER -> TRUE
    ELSE LET instruction == Head(block.instructions)
         IN  /\ check_instruction(variables, instruction, return_type)
             /\ check_block(
                    IF "name" \in DOMAIN instruction
                    THEN (instruction.name :> instruction_result_type(instruction))
                             @@ variables
                    ELSE variables,
                    Block(Tail(block.instructions), block.terminal_instruction),
                    return_type, branch_type)

\* type_check::check: TRUE when the module passes the type-check.
type_check(checked) ==
    LET globals ==
            map_from_pairs(
                [j \in DOMAIN checked.function_declarations |->
                    Argument(checked.function_declarations[j].name,
                             checked.function_declarations[j].type)]
                \o [j \in DOMAIN checked.function_definitions |->
                       Argument(checked.function_definitions[j].name,
                                definition_type(checked.function_definitions[j]))])
    IN  \A j \in DOMAIN checked.function_definitions :
            LET definition == checked.function_definitions[j]
            IN  check_block(map_from_pairs(definition.arguments) @@ globals,
                            definition.body, definition.result_type, <<>>)

-----------------------------------------------------------------------------
(* The C calling-convention pass (analysis/c_calling_convention.rs).       *)

\* InstructionBuilder over NameGenerator::new("{call name}_c_"): the n-th generated name.
builder_name(prefix, count) == prefix \o ToString(count)

\* The call-site arguments with the pointer put before the user arguments.
call_site_arguments_prepended(instruction, pointer) ==
    <<pointer.expression>>
        \o SubSeq(instruction.arguments, 1,
                  Min(Len(instruction.arguments), Len(instruction.type.arguments)))

\* Lines 96-103: the arguments zipped with the argument types, then the pointer.
call_site_arguments(instruction, pointer) ==
    Append(SubSeq(instruction.arguments, 1,
                  Min(Len(instruction.arguments), Len(instruction.type.arguments))),
           pointer.expression)

\* transform_instruction emitting the load before the call.
ccc_transform_instruction_load_first(word, instruction) ==
    IF instruction.i = "call" /\ instruction.type.calling_convention = "Target"
    THEN IF instruction.function.e = "var"
         THEN LET prefix == instruction.name \o "_c_"
                  function_type == instruction.type
                  pointer == build_variable(builder_name(prefix, 0),
                                            Pointer(function_type.result))
              IN  << AllocateStack(function_type.result, pointer.expression.name),
                     Load(function_type.result, pointer.expression, instruction.name),
                     Call(type_transform_function(word, function_type),
                          Variable(instruction.function.name),
                          call_site_arguments(instruction, pointer),
                          builder_name(prefix, 1)) >>
         ELSE <<instruction>>
    ELSE <<instruction>>

ccc_transform_instruction(word, instruction) ==
    IF instruction.i = "call" /\ instruction.type.calling_convention = "Target"
    THEN IF instruction.function.e = "var"
         THEN LET prefix == instruction.name \o "_c_"
                  function_type == instruction.type
                  pointer == build_variable(builder_name(prefix, 0),
                                            Pointer(function_type.result))
              IN  << AllocateStack(function_type.result, pointer.expression.name),
                     Call(type_transform_function(word, function_type),
                          Variable(instruction.function.name),
                          call_site_arguments(instruction, pointer),
                          builder_name(prefix, 1)),
                     Load(function_type.result, pointer.expression, instruction.name) >>
         ELSE <<instruction>>
    ELSE <<instruction>>

ccc_transform_block(word, block) ==
    Block(Flatten([j \in DOMAIN block.instructions |->
                      ccc_transform_instruction(word, block.instructions[j])]),
          block.terminal_instruction)

ccc_transform_function_definition(word, definition) ==
    FunctionDefinition(definition.name, definition.arguments, definition.result_type,
                       ccc_transform_block(word, definition.body), definition.options)

\* The declarations copied like the variable declarations, not mapped.
ccc_transform_declarations_unmapped(word, declarations) == declarations

\* The declarations mapped by transform (lines 29-33).
ccc_transform_declarations(word, declarations) ==
    [j \in DOMAIN declarations |-> function_declaration_transform(word, declarations[j])]

\* A definition mapped by the call-site rewrite only.
ccc_transform_definition_calls_only(word, definition) ==
    ccc_transform_function_definition(word, definition)

\* The word-size test accepting 16 as well.
valid_word_bytes_wide(word) == word \in {4, 8, 16}

\* The word sizes transform accepts (line 20).
valid_word_bytes(word) == word \in {4, 8}

\* One definition mapped by transform (lines 35-40).
ccc_transform_definition(word, definition) ==
    ccc_transform_function_definition(word, function_definition_transform(word, definition))

-----------------------------------------------------------------------------
(* Input modules of the C calling-convention pass: function declarations   *)
(* and a definition `g` whose body has at most MaxBody instructions,       *)
(* optionally preceded by the memory-returning definition `f`.             *)

MaxBody == 2

Record2 == Record(<<I64, I64>>)

Record3 == Record(<<I64, I64, I64>>)

Zero == PrimitiveValue(I64, 0)

Declarations ==
    << FunctionDeclaration("f", Function(<<>>, Record3, "Target")),
       FunctionDeclaration("f1", Function(<<I64>>, Record3, "Target")),
       FunctionDeclaration("s", Function(<<>>, Record2, "Target")),
       FunctionDeclaration("i", Function(<<I64>>, I64, "Target")),
       FunctionDeclaration("e", Function(<<I64>>, Record3, "Source")) >>

DeclarationLists ==
    { <<>>, <<Declarations[1]>>, SubSeq(Declarations, 3, 4), Tail(Declarations),
      Declarations }

CabiInstructions ==
    { Call(Function(<<>>, Record3, "Target"), Variable("f"), <<>>, "x"),
      Call(Function(<<I64>>, Record3, "Target"), Variable("f1"), <<Variable("a")>>, "x1"),
      Call(Function(<<>>, Record2, "Target"), Variable("s"), <<>>, "w"),
      Call(Function(<<I64>>, Record3, "Source"), Variable("e"), <<Zero>>, "z"),
      Call(Function(<<>>, Record3, "Target"),
           Undefined(Function(<<>>, Record3, "Target")), <<>>, "u"),
      DeconstructRecord(Record3, Variable("x"), 0, "y"),
      If(I64, PrimitiveValue(Boolean, TRUE),
         Block(<<Call(Function(<<>>, Record3, "Target"), Variable("f"), <<>>, "x2")>>,
               Branch(I64, Zero)),
         Block(<<>>, Branch(I64, Zero)), "j"),
      If(I64, PrimitiveValue(Boolean, TRUE),
         Block(<<>>, Return(Record3, Undefined(Record3))),
         Block(<<>>, Unreachable), "j2") }

CabiSequences ==
    UNION { { instructions \in [1..n -> CabiInstructions] :
                \A j, l \in 1..n : j # l => instructions[j] # instructions[l] } :
            n \in 0..MaxBody }

\* (calling convention, arguments, result type, terminal instruction) of `g`.
CabiSignatures ==
    { <<"Target", <<Argument("a", I64)>>, I64, Return(I64, Variable("y"))>>,
      <<"Target", <<Argument("a", I64)>>, I64, Return(I64, Variable("a"))>>,
      <<"Target", <<Argument("a", I64)>>, Record3, Return(Record3, Undefined(Record3))>>,
      <<"Target", <<Argument("a", I64)>>, Record3, Return(Record3, Variable("x"))>>,
      <<"Target", <<>>, Record3, Unreachable>>,
      <<"Target", <<>>, Record2, Return(Record2, Undefined(Record2))>>,
      <<"Source", <<Argument("a", I64)>>, Record3, Return(Record3, Undefined(Record3))>>,
      <<"Target", <<>>, I64, Return(Record3, Undefined(Record3))>> }

CabiDefinitions ==
    { FunctionDefinition("g", signature[2], signature[3],
                         Block(instructions, signature[4]),
                         [DefaultOptions EXCEPT !.calling_convention = signature[1]]) :
        signature \in CabiSignatures, instructions \in CabiSequences }

CabiGlobalNames == {"f", "f1", "s", "i", "e", "g"}

WellScopedCabiDefinitions ==
    { definition \in CabiDefinitions :
        well_scoped(definition.body.instructions, definition.body.terminal_instruction,
                    CabiGlobalNames \cup {definition.arguments[j].name :
                                             j \in DOMAIN definition.arguments}) }

\* The definition `f` of the tests: a Target function returning a record of three words.
DefinitionF ==
    FunctionDefinition("f", <<>>, Record3,
                       Block(<<>>, Return(Record3, Undefined(Record3))),
                       [DefaultOptions EXCEPT !.calling_convention = "Target"])

CabiModules ==
    { Module(<<>>, declarations, <<>>, <<>>) : declarations \in DeclarationLists }
        \cup { Module(<<>>, declarations, <<>>, <<definition>>) :
                  declarations \in DeclarationLists,
                  definition \in WellScopedCabiDefinitions }
        \cup { Module(<<>>, Tail(Declarations), <<>>, <<DefinitionF, definition>>) :
                  definition \in WellScopedCabiDefinitions }

WordSizes == {1, 2, 3, 4, 5, 6, 7, 8, 16}

-----------------------------------------------------------------------------
(* The C calling-convention pass as a state machine: transform             *)
(* (c_calling_convention.rs 19-46) checks the word size, type-checks its   *)
(* input, maps the declarations and the definitions, type-checks the       *)
(* module built and returns it.                                            *)

InitCabi ==
    /\ input \in CabiModules
    /\ word_bytes \in WordSizes
    /\ module = input
    /\ pc = "word_size"
    /\ index = 1
    /\ round = 1
    /\ first_output = input
    /\ result = NoResult
    /\ result_type = void_type
    /\ continuation_option = <<>>
    /\ local_variables = <<>>
    /\ function_definitions = <<>>
    /\ counter = 0

cabi_unused == <<result_type, continuation_option, local_variables, function_definitions,
                 counter>>

\* Lines 20-22: a word size other than 4 or 8 is rejected.
RejectWordSize ==
    /\ pc = "word_size"
    /\ ~valid_word_bytes(word_bytes)
    /\ result' = Err("WordSize", word_bytes)
    /\ pc' = "done"
    /\ UNCHANGED <<input, module, index, round, first_output, word_bytes, cabi_unused>>

AcceptWordSize ==
    /\ pc = "word_size"
    /\ valid_word_bytes(word_bytes)
    /\ pc' = "check_input"
    /\ UNCHANGED <<input, module, index, round, first_output, word_bytes, result,
                   cabi_unused>>

\* Line 24: type_check::check(module)?
CheckInput ==
    /\ pc = "check_input"
    /\ IF type_check(module)
       THEN pc' = "declarations" /\ result' = result
       ELSE pc' = "done" /\ result' = Err("TypeCheck", "input")
    /\ UNCHANGED <<input, module, index, round, first_output, word_bytes, cabi_unused>>

\* Lines 29-33: every function declaration is mapped.
TransformDeclarations ==
    /\ pc = "declarations"
    /\ module' = [module EXCEPT
                     !.function_declarations = ccc_transform_declarations(word_bytes, @)]
    /\ pc' = "definitions"
    /\ index' = 1
    /\ UNCHANGED <<input, round, first_output, word_bytes, result, cabi_unused>>

\* Lines 35-40: the next function definition is mapped.
TransformDefinition ==
    /\ pc = "definitions"
    /\ index <= Len(module.function_definitions)
    /\ module' = [module EXCEPT
                     !.function_definitions[index] =
                         ccc_transform_definition(word_bytes, @)]
    /\ index' = index + 1
    /\ UNCHANGED <<input, pc, round, first_output, word_bytes, result, cabi_unused>>

\* Ok(module) without the type-check of the module built.
CheckOutput_unchecked ==
    /\ pc = "definitions"
    /\ index > Len(module.function_definitions)
    /\ result' = Ok(module)
    /\ pc' = "done"
    /\ UNCHANGED <<input, module, index, round, first_output, word_bytes, cabi_unused>>

\* Lines 43-45: type_check::check(&module)?; Ok(module)
CheckOutput ==
    /\ pc = "definitions"
    /\ index > Len(module.function_definitions)
    /\ result' = IF type_check(module) THEN Ok(module) ELSE Err("TypeCheck", "output")
    /\ pc' = "done"
    /\ UNCHANGED <<input, module, index, round, first_output, word_bytes, cabi_unused>>

\* The caller applies the pass, with the same word size, to the module it returned.
ReapplyCabi ==
    /\ pc = "done"
    /\ result.ok
    /\ round = 1
    /\ round' = 2
    /\ first_output' = result.module
    /\ module' = result.module
    /\ pc' = "word_size"
    /\ index' = 1
    /\ result' = NoResult
    /\ UNCHANGED <<input, word_bytes, cabi_unused>>

NextCabi ==
    \/ RejectWordSize
    \/ AcceptWordSize
    \/ CheckInput
    \/ TransformDeclarations
    \/ TransformDefinition
    \/ CheckOutput
    \/ ReapplyCabi

SpecCabi == InitCabi /\ [][NextCabi]_vars

-----------------------------------------------------------------------------
(* The pass over the Source calls of Target function definitions           *)
(* (analysis/cps/target_function_compiler.rs).  A context is the record    *)
(* [counter, function_definitions, result_type]: the name generator's      *)
(* counter, the synthesized definitions, and the final result type.        *)

\* Instruction bodies of the Target definitions have at most MaxCalls instructions.
MaxCalls == 2

\* The name generator of the pass: prefix `_cps_` (line 19).
compile_generate(count) == "_cps_" \o ToString(count)

PassThrough(type, expression, name) ==
    [i |-> "pass_through", type |-> type, expression |-> expression, name |-> name]

\* stack::create_stack: the instruction that creates a stack, and the stack.
create_stack(context) ==
    [context |-> [context EXCEPT !.counter = @ + 1],
     instructions |-> <<[i |-> "create_stack", name |-> compile_generate(context.counter)]>>,
     value |-> TypedExpression(Variable(compile_generate(context.counter)), stack_type)]

\* stack::push_to_stack: push the element onto the stack.
push_to_stack(context, stack, element) ==
    [context |-> [context EXCEPT !.counter = @ + 1],
     instructions |-> <<[i |-> "push", type |-> element.type, stack |-> stack.expression,
                         value |-> element.expression,
                         name |-> compile_generate(context.counter)]>>]

\* stack::pop_from_stack: pop a value of the given type.
pop_from_stack(context, stack, type) ==
    [context |-> [context EXCEPT !.counter = @ + 1],
     instructions |-> <<[i |-> "pop", type |-> type, stack |-> stack.expression,
                         name |-> compile_generate(context.counter)]>>,
     value |-> TypedExpression(Variable(compile_generate(context.counter)), type)]

\* stack::destroy_stack: the instruction that destroys the stack.
destroy_stack(context, stack) ==
    [context |-> context,
     instructions |-> <<[i |-> "destroy_stack", stack |-> stack.expression]>>]

\* compile_continuation: push the definition of the continuation that stores its
\* argument through the pointer it pops; the result is the context and the variable
\* naming the continuation.
compile_continuation(context, result_) ==
    LET name == compile_generate(context.counter)
        popped == pop_from_stack([context EXCEPT !.counter = @ + 1],
                                 build_variable("stack", stack_type), Pointer(result_))
        definition ==
            FunctionDefinition(
                name,
                <<Argument("stack", stack_type), Argument("result", result_)>>,
                context.result_type,
                Block(popped.instructions
                          \o <<Store(result_, Variable("result"), popped.value.expression)>>,
                      Return(context.result_type, Undefined(context.result_type))),
                FunctionDefinitionOptions("Tail", "Internal", TRUE))
    IN  [context |-> [popped.context EXCEPT
                         !.function_definitions = Append(@, definition)],
         value |-> build_variable(name, result_)]

\* compile_source_function_call without the destruction of the stack.
compile_source_function_call_leaking(context, call) ==
    LET created == create_stack(context)
        pointer_name == compile_generate(created.context.counter)
        result_pointer == build_variable(pointer_name, Pointer(call.type.result))
        pushed == push_to_stack([created.context EXCEPT !.counter = @ + 1],
                                created.value, result_pointer)
        continuation == compile_continuation(pushed.context, call.type.result)
        call_name == compile_generate(continuation.context.counter)
        load_name == compile_generate(continuation.context.counter + 1)
    IN  [context |-> [continuation.context EXCEPT !.counter = @ + 2],
         instructions |->
             created.instructions
                 \o <<AllocateStack(call.type.result, pointer_name)>>
                 \o pushed.instructions
                 \o << Call(call.type, call.function,
                            <<created.value.expression, continuation.value.expression>>
                                \o call.arguments,
                            call_name),
                       Load(call.type.result, result_pointer.expression, load_name) >>
                 \o <<PassThrough(call.type.result, Variable(load_name), call.name)>>]

\* compile_source_function_call: the instructions that run a Source call on a stack of
\* its own and bind the call's name to the result stored by the continuation.
compile_source_function_call(context, call) ==
    LET created == create_stack(context)
        pointer_name == compile_generate(created.context.counter)
        result_pointer == build_variable(pointer_name, Pointer(call.type.result))
        pushed == push_to_stack([created.context EXCEPT !.counter = @ + 1],
                                created.value, result_pointer)
        continuation == compile_continuation(pushed.context, call.type.result)
        call_name == compile_generate(continuation.context.counter)
        load_name == compile_generate(continuation.context.counter + 1)
        destroyed == destroy_stack([continuation.context EXCEPT !.counter = @ + 2],
                                   created.value)
    IN  [context |-> destroyed.context,
         instructions |->
             created.instructions
                 \o <<AllocateStack(call.type.result, pointer_name)>>
                 \o pushed.instructions
                 \o << Call(call.type, call.function,
                            <<created.value.expression, continuation.value.expression>>
                                \o call.arguments,
                            call_name),
                       Load(call.type.result, result_pointer.expression, load_name) >>
                 \o destroyed.instructions
                 \o <<PassThrough(call.type.result, Variable(load_name), call.name)>>]

RECURSIVE compile_instructions(_, _)

\* compile_block: the terminal instruction is kept; compile_instruction maps a Source
\* call to its replacement, an if to the if of its compiled arms, and any other
\* instruction to itself.
compile_block(context, block) ==
    LET compiled == compile_instructions(context, block.instructions)
    IN  [context |-> compiled.context,
         block |-> Block(compiled.instructions, block.terminal_instruction)]

compile_instructions(context, instructions) ==
    IF instructions = <<>>
    THEN [context |-> context, instructions |-> <<>>]
    ELSE LET instruction == Head(instructions)
             first ==
                 IF instruction.i = "call"
                 THEN IF instruction.type.calling_convention = "Source"
                      THEN compile_source_function_call(context, instruction)
                      ELSE [context |-> context, instructions |-> <<instruction>>]
                 ELSE IF instruction.i = "if"
                 THEN LET then == compile_block(context, instruction.then)
                          else == compile_block(then.context, instruction.else)
                      IN  [context |-> else.context,
                           instructions |-> <<If(instruction.type, instruction.condition,
                                                 then.block, else.block,
                                                 instruction.name)>>]
                 ELSE [context |-> context, instructions |-> <<instruction>>]
             others == compile_instructions(first.context, Tail(instructions))
         IN  [context |-> others.context,
              instructions |-> first.instructions \o others.instructions]

\* compile_definition on a Target definition: the body is compiled, the rest is kept.
compile_definition(context, definition) ==
    LET compiled == compile_block(context, definition.body)
    IN  [context |-> compiled.context,
         definition |-> [definition EXCEPT !.body = compiled.block]]

compile_context ==
    [counter |-> counter, function_definitions |-> function_definitions,
     result_type |-> result_type]

\* Target definitions m(a: f64, b: i64) -> f64 over these instructions: Source calls
\* without and with arguments, a Target call, a load, and an if with a Source call in
\* its then arm.
BridgeInstructions ==
    { source_call_f("x"),
      Call(Function(<<F64, I64>>, I64, "Source"), Variable("g"),
           <<Variable("a"), Variable("b")>>, "x1"),
      Call(Function(<<>>, F64, "Target"), Variable("h"), <<>>, "t"),
      Load(F64, Undefined(Pointer(F64)), "y"),
      If(F64, PrimitiveValue(Boolean, TRUE),
         Block(<<source_call_f("x2")>>, Branch(F64, Variable("x2"))),
         Block(<<>>, Branch(F64, Undefined(F64))), "c") }

BridgeSequences ==
    UNION { { instructions \in [1..n -> BridgeInstructions] :
                \A j, l \in 1..n : j # l => instructions[j] # instructions[l] } :
            n \in 0..MaxCalls }

BridgeDefinitions ==
    { FunctionDefinition("m", <<Argument("a", F64), Argument("b", I64)>>, F64,
                         Block(instructions, Return(F64, Undefined(F64))),
                         [DefaultOptions EXCEPT !.calling_convention = "Target"]) :
        instructions \in BridgeSequences }

\* Modules of one Target definition, alone or beside a definition that is not Target.
BridgeModules ==
    { Module(<<>>, <<>>, <<>>, <<definition>>) : definition \in BridgeDefinitions }
        \cup { Module(<<>>, <<>>, <<>>, <<definition, second>>) :
                  definition \in BridgeDefinitions, second \in SecondDefinitions }
        \cup { Module(<<>>, <<>>, <<>>, <<second, definition>>) :
                  definition \in BridgeDefinitions, second \in SecondDefinitions }

InitBridge ==
    /\ input \in BridgeModules
    /\ result_type \in FinalResultTypes
    /\ module = input
    /\ pc = "compile"
    /\ index = 1
    /\ continuation_option = <<>>
    /\ local_variables = <<>>
    /\ function_definitions = <<>>
    /\ counter = 0
    /\ round = 1
    /\ first_output = input
    /\ word_bytes = 0
    /\ result = NoResult

bridge_unused == <<continuation_option, local_variables, round, first_output, word_bytes,
                   result>>

\* compile_definition on a definition that is not Target: the clone (line 54).
CloneDefinition ==
    /\ pc = "compile"
    /\ index <= Len(module.function_definitions)
    /\ module.function_definitions[index].options.calling_convention # "Target"
    /\ index' = index + 1
    /\ UNCHANGED <<input, result_type, module, pc, function_definitions, counter,
                   bridge_unused>>

\* compile_definition on a Target definition (lines 44-52).
CompileDefinition ==
    /\ pc = "compile"
    /\ index <= Len(module.function_definitions)
    /\ module.function_definitions[index].options.calling_convention = "Target"
    /\ LET compiled == compile_definition(compile_context,
                                          module.function_definitions[index])
       IN  /\ module' = [module EXCEPT !.function_definitions[index] =
                                           compiled.definition]
           /\ function_definitions' = compiled.context.function_definitions
           /\ counter' = compiled.context.counter
    /\ index' = index + 1
    /\ UNCHANGED <<input, result_type, pc, bridge_unused>>

\* compile: the compiled definitions chained with the synthesized ones (lines 24-36).
CollectModule ==
    /\ pc = "compile"
    /\ index > Len(module.function_definitions)
    /\ module' = [module EXCEPT !.function_definitions = @ \o function_definitions]
    /\ pc' = "collected"
    /\ UNCHANGED <<input, result_type, index, function_definitions, counter,
                   bridge_unused>>

NextBridge ==
    \/ CloneDefinition
    \/ CompileDefinition
    \/ CollectModule

SpecBridge == InitBridge /\ [][NextBridge]_vars

-----------------------------------------------------------------------------
(* Properties of the CPS pass, checked under SpecCps.                      *)

RECURSIVE block_calls(_)

\* Every call instruction of a block, those in the arms of its ifs included, in order.
block_calls(block) ==
    Flatten([j \in DOMAIN block.instructions |->
        LET instruction == block.instructions[j]
        IN  IF instruction.i = "call" THEN <<instruction>>
            ELSE IF instruction.i = "if"
            THEN block_calls(instruction.then) \o block_calls(instruction.else)
            ELSE <<>>])

source_calls(block) ==
    SelectSeq(block_calls(block), LAMBDA call : call.type.calling_convention = "Source")

CpsDone == pc = "done" /\ round = 1

\* Positions of the input's Source definitions.
SourcePositions ==
    {j \in DOMAIN input.function_definitions :
        input.function_definitions[j].options.calling_convention = "Source"}

\* Positions, in the returned module, of the continuations synthesized by the pass.
SynthesizedPositions ==
    {j \in DOMAIN module.function_definitions : j > Len(input.function_definitions)}

\* C1: after the CPS transform no function definition of the returned module, original
\* or synthesized continuation, has calling convention Source.
C1_NoSourceDefinition ==
    CpsDone =>
        \A j \in DOMAIN module.function_definitions :
            module.function_definitions[j].options.calling_convention # "Source"

\* C1 witness: the pass has returned a module with a rewritten Source definition and a
\* synthesized continuation.
C1_Witness ==
    /\ CpsDone
    /\ SourcePositions # {}
    /\ SynthesizedPositions # {}

\* C2: every Source definition keeps its name, gets `_s` at position 0 and `_k` of type
\* fn(stack, R) -> RT at position 1 before its user arguments in their order, has result
\* type RT and calling convention Tail.
C2_SourceSignature ==
    CpsDone =>
        \A j \in SourcePositions :
            LET before == input.function_definitions[j]
                after == module.function_definitions[j]
            IN  /\ after.name = before.name
                /\ after.arguments =
                       << Argument("_s", stack_type),
                          Argument("_k", Function(<<stack_type, before.result_type>>,
                                                  result_type, "Tail")) >>
                           \o before.arguments
                /\ after.result_type = result_type
                /\ after.options.calling_convention = "Tail"

\* C2 witness: a Source definition with a user argument was rewritten with a final
\* result type other than its own result type.
C2_Witness ==
    /\ CpsDone
    /\ \E j \in SourcePositions :
          /\ input.function_definitions[j].arguments # <<>>
          /\ input.function_definitions[j].result_type # result_type

\* The definitions the pass rewrote or synthesized.
RewrittenPositions == SourcePositions \cup SynthesizedPositions

rewritten_source_calls ==
    Flatten([j \in DOMAIN module.function_definitions |->
                IF j \in RewrittenPositions
                THEN source_calls(module.function_definitions[j].body)
                ELSE <<>>])

input_source_calls ==
    Flatten([j \in DOMAIN input.function_definitions |->
                IF j \in SourcePositions
                THEN source_calls(input.function_definitions[j].body)
                ELSE <<>>])

begins_with_stack_and_continuation(call) ==
    /\ Len(call.arguments) >= 2
    /\ call.arguments[1] = Variable("_s")
    /\ call.arguments[2].e = "var"
    /\ \/ call.arguments[2].name = "_k"
       \/ \E j \in SynthesizedPositions :
             module.function_definitions[j].name = call.arguments[2].name

C4_IdentityWithoutSource ==
    (CpsDone /\ SourcePositions = {}) => module = input

\* C4 witness: the pass returned on a module whose only definitions are not Source and
\* one of them holds a Source call.
C4_Witness ==
    /\ CpsDone
    /\ SourcePositions = {}
    /\ \E j \in DOMAIN input.function_definitions :
          source_calls(input.function_definitions[j].body) # <<>>

\* C5: applying the CPS transform to its own output returns that output unchanged.
C5_Idempotent ==
    (pc = "done" /\ round = 2) => module = first_output

\* C5 witness: the second application has returned for an input whose first
\* application rewrote a Source definition and synthesized a continuation.
C5_Witness ==
    /\ pc = "done"
    /\ round = 2
    /\ SourcePositions # {}
    /\ Len(first_output.function_definitions) > Len(input.function_definitions)
    /\ first_output # input

RECURSIVE source_call_sites(_)

\* The Source calls of a block, those in the arms of its ifs included, each with its
\* place in its block: whether an instruction follows it, whether the terminal
\* instruction of its block returns the variable naming its result, and whether the
\* instruction before it pushes onto the stack.
source_call_sites(block) ==
    Flatten([j \in DOMAIN block.instructions |->
        LET instruction == block.instructions[j]
        IN  IF instruction.i = "call" /\ instruction.type.calling_convention = "Source"
            THEN << [call |-> instruction,
                     followed |-> j < Len(block.instructions),
                     returned |-> /\ block.terminal_instruction.k = "return"
                                  /\ block.terminal_instruction.expression
                                         = Variable(instruction.name),
                     pushed |-> j > 1 /\ block.instructions[j - 1].i = "push",
                     previous |-> IF j > 1 THEN <<block.instructions[j - 1]>> ELSE <<>>,
                     rest |-> Block(SubSeq(block.instructions, j + 1,
                                           Len(block.instructions)),
                                    block.terminal_instruction)] >>
            ELSE IF instruction.i = "if"
            THEN source_call_sites(instruction.then) \o source_call_sites(instruction.else)
            ELSE <<>>])

\* The Source calls of the input's Source definitions, and those of the definitions the
\* pass rewrote or synthesized.
input_sites ==
    Flatten([j \in DOMAIN input.function_definitions |->
                IF j \in SourcePositions
                THEN source_call_sites(input.function_definitions[j].body)
                ELSE <<>>])

output_sites ==
    Flatten([j \in DOMAIN module.function_definitions |->
                IF j \in RewrittenPositions
                THEN source_call_sites(module.function_definitions[j].body)
                ELSE <<>>])

in_tail_position(site) == ~site.followed /\ site.returned

\* The continuations synthesized for a call with the given original result name.
continuations_of(name) ==
    {j \in SynthesizedPositions : module.function_definitions[j].arguments[2].name = name}

\* Every push instruction of a block, those in the arms of its ifs included.
RECURSIVE block_pushes(_)
block_pushes(block) ==
    Flatten([j \in DOMAIN block.instructions |->
        LET instruction == block.instructions[j]
        IN  IF instruction.i = "push" THEN <<instruction>>
            ELSE IF instruction.i = "if"
            THEN block_pushes(instruction.then) \o block_pushes(instruction.else)
            ELSE <<>>])

output_pushes ==
    Flatten([j \in DOMAIN module.function_definitions |->
                block_pushes(module.function_definitions[j].body)])

\* C17: a Source call is rewritten as a tail call, with `_k` as its continuation, no
\* environment pushed and no continuation synthesized, exactly when no instruction
\* follows it in its block and the block's terminal instruction returns the variable
\* naming its result; in every other case the function is split at the call: an
\* environment is pushed right before the call and the call gets a synthesized
\* continuation whose argument carries the call's result name.
C17_TailCallDetection ==
    CpsDone =>
        /\ \A j \in DOMAIN input_sites :
              LET site == input_sites[j]
              IN  IF in_tail_position(site)
                  THEN continuations_of(site.call.name) = {}
                  ELSE /\ Cardinality(continuations_of(site.call.name)) = 1
                       /\ \E l \in DOMAIN output_sites :
                             LET rewritten == output_sites[l]
                             IN  /\ rewritten.pushed
                                 /\ rewritten.call.function = site.call.function
                                 /\ rewritten.call.arguments =
                                        << Variable("_s"),
                                           Variable(module.function_definitions[
                                               CHOOSE d \in continuations_of(site.call.name) :
                                                   TRUE].name) >>
                                            \o site.call.arguments
        /\ Len(output_sites) = Len(input_sites)
        /\ Cardinality({j \in DOMAIN output_sites :
                           /\ output_sites[j].call.arguments[2] = Variable("_k")
                           /\ ~output_sites[j].pushed})
               = Cardinality({j \in DOMAIN input_sites : in_tail_position(input_sites[j])})
        /\ Cardinality({j \in DOMAIN output_sites :
                           /\ output_sites[j].call.arguments[2] # Variable("_k")
                           /\ output_sites[j].pushed})
               = Cardinality({j \in DOMAIN input_sites : ~in_tail_position(input_sites[j])})
        /\ Len(output_pushes)
               = Cardinality({j \in DOMAIN input_sites : ~in_tail_position(input_sites[j])})
        /\ Cardinality(SynthesizedPositions)
               = Cardinality({j \in DOMAIN input_sites : ~in_tail_position(input_sites[j])})

\* C17 witness: the pass rewrote a definition with a call in tail position, a call that
\* is last in its block before a terminal instruction that does not return its result,
\* and a call that is followed by an instruction.
C17_Witness ==
    /\ CpsDone
    /\ \E j, l, m \in DOMAIN input_sites :
          /\ in_tail_position(input_sites[j])
          /\ ~input_sites[l].followed /\ ~input_sites[l].returned
          /\ input_sites[m].followed

RECURSIVE bound_names(_)

\* The names bound by the instructions of a block, those in if arms included.
bound_names(block) ==
    Flatten([j \in DOMAIN block.instructions |->
        LET instruction == block.instructions[j]
        IN  IF instruction.i = "if"
            THEN bound_names(instruction.then) \o bound_names(instruction.else)
                     \o <<instruction.name>>
            ELSE IF "name" \in DOMAIN instruction THEN <<instruction.name>> ELSE <<>>])

input_names ==
    UNION { Range(bound_names(input.function_definitions[j].body))
                \cup {input.function_definitions[j].arguments[l].name :
                         l \in DOMAIN input.function_definitions[j].arguments}
                \cup {input.function_definitions[j].name} :
            j \in DOMAIN input.function_definitions }

output_names ==
    Flatten([j \in DOMAIN module.function_definitions |->
                bound_names(module.function_definitions[j].body)])

\* A name the pass generated: bound once in the returned module, and not a name of the
\* input.
fresh_name(name) ==
    /\ name \notin input_names
    /\ Cardinality({j \in DOMAIN output_names : output_names[j] = name}) = 1

RECURSIVE returns_continued(_, _)

\* The rewrite of a block without Source call: a terminal return(R, e) has become the
\* call of `_k` : fn(stack, R) -> RT with `_s` and e, bound to a fresh name r, followed by
\* return(RT, r); any other terminal instruction is kept; the instructions are the same,
\* with the arms of an if rewritten in the same way.
returns_continued(before, after) ==
    /\ Len(after.instructions) =
           Len(before.instructions) + (IF before.terminal_instruction.k = "return" THEN 1
                                       ELSE 0)
    /\ \A j \in DOMAIN before.instructions :
          IF before.instructions[j].i = "if"
          THEN /\ after.instructions[j].i = "if"
               /\ after.instructions[j] =
                      [before.instructions[j] EXCEPT !.then = after.instructions[j].then,
                                                     !.else = after.instructions[j].else]
               /\ returns_continued(before.instructions[j].then,
                                    after.instructions[j].then)
               /\ returns_continued(before.instructions[j].else,
                                    after.instructions[j].else)
          ELSE after.instructions[j] = before.instructions[j]
    /\ IF before.terminal_instruction.k = "return"
       THEN LET call == after.instructions[Len(after.instructions)]
            IN  /\ call = Call(Function(<<stack_type, before.terminal_instruction.type>>,
                                        result_type, "Tail"),
                               Variable("_k"),
                               <<Variable("_s"), before.terminal_instruction.expression>>,
                               call.name)
                /\ fresh_name(call.name)
                /\ after.terminal_instruction = Return(result_type, Variable(call.name))
       ELSE after.terminal_instruction = before.terminal_instruction

without_source_call(block) == source_call_sites(block) = <<>>

\* The instructions of a continuation's body after the pop of the environment and the
\* deconstruction of each of its fields.
continuation_rest(definition) ==
    Block(SubSeq(definition.body.instructions,
                 2 + Len(definition.body.instructions[1].type.fields),
                 Len(definition.body.instructions)),
          definition.body.terminal_instruction)

\* C18: in a Source function every block that holds no Source call is rewritten so that
\* a terminal return(R, e) becomes the call of `_k` with `[_s, e]` and the continuation
\* type built from R and RT, bound to a fresh name r, followed by return(RT, r), with the
\* instructions before it unchanged; a block ending in branch or unreachable keeps its
\* terminal instruction.  The blocks are the body of a definition, the arms of the ifs
\* before its first Source call, and the instructions that follow a split.
C18_ReturnThroughContinuation ==
    CpsDone =>
        /\ \A j \in SourcePositions :
              LET before == input.function_definitions[j].body
                  after == module.function_definitions[j].body
                  position == first_source_call(before.instructions)
                  prefix == IF position = 0 THEN Len(before.instructions)
                            ELSE position - 1
              IN  /\ without_source_call(before) => returns_continued(before, after)
                  /\ \A l \in 1..prefix :
                        IF before.instructions[l].i = "if"
                        THEN /\ after.instructions[l].i = "if"
                             /\ without_source_call(before.instructions[l].then) =>
                                    returns_continued(before.instructions[l].then,
                                                      after.instructions[l].then)
                             /\ without_source_call(before.instructions[l].else) =>
                                    returns_continued(before.instructions[l].else,
                                                      after.instructions[l].else)
                        ELSE after.instructions[l] = before.instructions[l]
        /\ \A j \in DOMAIN input_sites :
              LET site == input_sites[j]
              IN  (~in_tail_position(site) /\ without_source_call(site.rest)) =>
                      \A d \in continuations_of(site.call.name) :
                          returns_continued(
                              site.rest,
                              continuation_rest(module.function_definitions[d]))

\* C18 witness: the pass rewrote a Source definition whose body holds an if with an arm
\* that returns without a Source call, and then a split that is followed by an
\* instruction and a return.
C18_Witness ==
    /\ CpsDone
    /\ \E j \in SourcePositions :
          LET before == input.function_definitions[j].body
              position == first_source_call(before.instructions)
          IN  /\ position > 1
              /\ \E l \in 1..(position - 1) :
                    /\ before.instructions[l].i = "if"
                    /\ without_source_call(before.instructions[l].else)
                    /\ before.instructions[l].else.terminal_instruction.k = "return"
              /\ position < Len(before.instructions)
              /\ before.terminal_instruction.k = "return"
              /\ without_source_call(
                     Block(SubSeq(before.instructions, position + 1,
                                  Len(before.instructions)),
                           before.terminal_instruction))

\* C19: each Source call that is not in tail position produces exactly one synthesized
\* function definition; its arguments are exactly `_s` of the stack type and x of type R,
\* x the call's original result name and R the callee's result type, its result type is
\* the final result type, its calling convention Tail, its linkage internal and its
\* address_named option false; no other definition is synthesized.
C19_SynthesizedContinuation ==
    CpsDone =>
        /\ \A j \in DOMAIN input_sites :
              LET site == input_sites[j]
              IN  ~in_tail_position(site) =>
                      /\ Cardinality(continuations_of(site.call.name)) = 1
                      /\ \A d \in continuations_of(site.call.name) :
                            LET definition == module.function_definitions[d]
                            IN  /\ definition.arguments =
                                       << Argument("_s", stack_type),
                                          Argument(site.call.name, site.call.type.result) >>
                                /\ definition.result_type = result_type
                                /\ definition.options =
                                       [calling_convention |-> "Tail",
                                        linkage |-> "Internal",
                                        address_named |-> FALSE]
        /\ Cardinality(SynthesizedPositions)
               = Cardinality({j \in DOMAIN input_sites : ~in_tail_position(input_sites[j])})
        /\ \A d, e \in SynthesizedPositions :
              d # e => module.function_definitions[d].name
                           # module.function_definitions[e].name

\* C19 witness: the pass split a definition at two calls, one of which takes an
\* argument.
C19_Witness ==
    /\ CpsDone
    /\ Cardinality(SynthesizedPositions) >= 2
    /\ \E j \in DOMAIN input_sites :
          /\ ~in_tail_position(input_sites[j])
          /\ input_sites[j].call.arguments # <<>>

RECURSIVE names_free_in(_, _)

\* The names referenced by the instructions and the terminal instruction that are not
\* bound by an earlier one of these instructions.
names_free_in(instructions, terminal_instruction) ==
    IF instructions = <<>>
    THEN Range(terminal_variables(terminal_instruction))
    ELSE LET instruction == Head(instructions)
             used == IF instruction.i = "if"
                     THEN Range(expression_variables(instruction.condition))
                              \cup names_free_in(instruction.then.instructions,
                                                 instruction.then.terminal_instruction)
                              \cup names_free_in(instruction.else.instructions,
                                                 instruction.else.terminal_instruction)
                     ELSE Range(instruction_variables(instruction))
         IN  used \cup (names_free_in(Tail(instructions), terminal_instruction)
                            \ Range(instruction_name(instruction)))

RECURSIVE declared_in(_)

\* The (name, type) pairs the instructions of a block declare, if arms included.
declared_in(block) ==
    UNION { LET instruction == block.instructions[j]
            IN  (IF instruction.i = "if"
                 THEN declared_in(instruction.then) \cup declared_in(instruction.else)
                 ELSE {})
                \cup (IF "name" \in DOMAIN instruction
                      THEN {<<instruction.name, instruction_result_type(instruction)>>}
                      ELSE {}) :
            j \in DOMAIN block.instructions }

\* The local-variable environment of a Source definition of the input once it has its
\* two leading arguments: its arguments and the names its body binds, with their types.
declared_locals(definition) ==
    { <<"_s", stack_type>>,
      <<"_k", Function(<<stack_type, definition.result_type>>, result_type, "Tail")>> }
        \cup {<<definition.arguments[j].name, definition.arguments[j].type>> :
                 j \in DOMAIN definition.arguments}
        \cup declared_in(definition.body)

\* The environment a continuation restores: the fields of the record it pops, each with
\* the name the deconstruction of that field binds.
restored_environment(definition) ==
    LET popped == definition.body.instructions[1]
    IN  [j \in DOMAIN popped.type.fields |->
            <<definition.body.instructions[j + 1].name, popped.type.fields[j]>>]

\* C20: at every split the continuation environment is `_k` together with the names
\* free in the instructions and the terminal instruction that follow the call, without
\* the call's result name, restricted to the names of the enclosing function's
\* local-variable environment, each with its declared type; no name is in it twice; the
\* record pushed before the call and the record the continuation pops and deconstructs
\* hold this environment in the same order.
C20_ContinuationEnvironment ==
    CpsDone =>
        \A j \in SourcePositions :
            LET definition == input.function_definitions[j]
                sites == source_call_sites(definition.body)
                locals == declared_locals(definition)
            IN  \A l \in DOMAIN sites :
                    ~in_tail_position(sites[l]) =>
                        \A d \in continuations_of(sites[l].call.name) :
                            LET continuation == module.function_definitions[d]
                                environment == restored_environment(continuation)
                                names == {environment[m][1] : m \in DOMAIN environment}
                                expected ==
                                    ({"_k"} \cup (names_free_in(
                                                      sites[l].rest.instructions,
                                                      sites[l].rest.terminal_instruction)
                                                  \ {sites[l].call.name}))
                                        \cap {local[1] : local \in locals}
                            IN  /\ continuation.body.instructions[1].i = "pop"
                                /\ \A m \in DOMAIN environment :
                                      /\ continuation.body.instructions[m + 1] =
                                             DeconstructRecord(
                                                 continuation.body.instructions[1].type,
                                                 Variable(continuation.body
                                                              .instructions[1].name),
                                                 m - 1, environment[m][1])
                                      /\ environment[m] \in locals
                                /\ names = expected
                                /\ "_k" \in names
                                /\ Cardinality(names) = Len(environment)
                                /\ \E m \in DOMAIN output_sites :
                                      /\ output_sites[m].call.arguments[2]
                                             = Variable(continuation.name)
                                      /\ output_sites[m].previous # <<>>
                                      /\ output_sites[m].previous[1].i = "push"
                                      /\ output_sites[m].previous[1].type
                                             = continuation.body.instructions[1].type
                                      /\ output_sites[m].previous[1].value.fields =
                                             [n \in DOMAIN environment |->
                                                 Variable(environment[n][1])]

\* C20 witness: the pass split a definition at a call that is followed by uses of its
\* own result, of an argument of the function, of the result of an earlier instruction
\* and of a global function.
C20_Witness ==
    /\ CpsDone
    /\ \E j \in SourcePositions :
          LET definition == input.function_definitions[j]
              sites == source_call_sites(definition.body)
          IN  \E l \in DOMAIN sites :
                  LET free == names_free_in(sites[l].rest.instructions,
                                            sites[l].rest.terminal_instruction)
                  IN  /\ ~in_tail_position(sites[l])
                      /\ sites[l].call.name \in free
                      /\ "x" \in free
                      /\ free \cap {"f", "g", "h"} # {}
                      /\ \E d \in continuations_of(sites[l].call.name) :
                            Len(restored_environment(module.function_definitions[d])) >= 3

RECURSIVE block_pops(_)

\* Every pop instruction of a block, those in the arms of its ifs included.
block_pops(block) ==
    Flatten([j \in DOMAIN block.instructions |->
        LET instruction == block.instructions[j]
        IN  IF instruction.i = "pop" THEN <<instruction>>
            ELSE IF instruction.i = "if"
            THEN block_pops(instruction.then) \o block_pops(instruction.else)
            ELSE <<>>])

\* The rewritten calls that pass the continuation of the given name.
callers_of(name) ==
    {j \in DOMAIN output_sites : output_sites[j].call.arguments[2] = Variable(name)}

\* C21: for every Source call that is not in tail position the caller block holds one
\* push of the environment record onto `_s` right before the rewritten call, and the
\* call's continuation begins with the one pop of the module's that it holds, from `_s`
\* and of the same record type, followed by one deconstruction per environment entry,
\* the one of field index i binding the name of the i-th pushed field; these come before
\* the other instructions of the continuation.
C21_PushPopPaired ==
    CpsDone =>
        /\ \A j \in DOMAIN input_sites :
              ~in_tail_position(input_sites[j]) =>
                  \A d \in continuations_of(input_sites[j].call.name) :
                      LET continuation == module.function_definitions[d]
                          instructions == continuation.body.instructions
                      IN  /\ Cardinality(callers_of(continuation.name)) = 1
                          /\ \A m \in callers_of(continuation.name) :
                                LET push == output_sites[m].previous[1]
                                IN  /\ output_sites[m].previous # <<>>
                                    /\ push.i = "push"
                                    /\ push.stack = Variable("_s")
                                    /\ push.value.e = "record"
                                    /\ push.value.type = push.type
                                    /\ instructions # <<>>
                                    /\ instructions[1].i = "pop"
                                    /\ instructions[1].stack = Variable("_s")
                                    /\ instructions[1].type = push.type
                                    /\ Len(block_pops(continuation.body)) = 1
                                    /\ Len(instructions) >= 1 + Len(push.value.fields)
                                    /\ \A l \in DOMAIN push.value.fields :
                                          /\ instructions[l + 1].i = "deconstruct_record"
                                          /\ instructions[l + 1].record
                                                 = Variable(instructions[1].name)
                                          /\ instructions[l + 1].type = push.type
                                          /\ instructions[l + 1].field_index = l - 1
                                          /\ push.value.fields[l]
                                                 = Variable(instructions[l + 1].name)
                                    /\ \A l \in (2 + Len(push.value.fields))
                                                    ..Len(instructions) :
                                          ~( /\ instructions[l].i = "deconstruct_record"
                                             /\ instructions[l].record
                                                    = Variable(instructions[1].name) )
        /\ Len(output_pushes) = Cardinality(SynthesizedPositions)
        /\ \A j \in DOMAIN module.function_definitions :
              Len(block_pops(module.function_definitions[j].body))
                  = (IF j \in SynthesizedPositions THEN 1 ELSE 0)

\* C21 witness: the pass split a definition at a call whose environment has three
\* entries and whose continuation goes on with another instruction.
C21_Witness ==
    /\ CpsDone
    /\ \E d \in SynthesizedPositions :
          LET instructions == module.function_definitions[d].body.instructions
          IN  /\ Len(instructions[1].type.fields) >= 3
              /\ Len(instructions) > 1 + Len(instructions[1].type.fields)

\* The number of the sites whose call has the given callee and user arguments.
sites_calling(sites, function, arguments) ==
    Cardinality({j \in DOMAIN sites :
                    /\ sites[j].call.function = function
                    /\ sites[j].call.arguments = arguments})

\* C22: a rewritten Source call keeps its user arguments in order after `_s` at
\* position 0 and the continuation at position 1; the continuation is `_k` for a call in
\* tail position and otherwise a name that is not a name of the input and names exactly
\* one synthesized definition, every synthesized definition being named by exactly one
\* call.
C22_CallArguments ==
    CpsDone =>
        /\ \A j \in DOMAIN output_sites :
              LET call == output_sites[j].call
              IN  /\ Len(call.arguments) >= 2
                  /\ call.arguments[1] = Variable("_s")
                  /\ call.arguments[2].e = "var"
                  /\ call.arguments[2] # Variable("_k") =>
                         /\ call.arguments[2].name \notin input_names
                         /\ Cardinality({d \in DOMAIN module.function_definitions :
                                            module.function_definitions[d].name
                                                = call.arguments[2].name}) = 1
                         /\ \E d \in SynthesizedPositions :
                               module.function_definitions[d].name = call.arguments[2].name
        /\ \A j \in DOMAIN input_sites :
              LET site == input_sites[j]
                  tail == SelectSeq(input_sites, in_tail_position)
                  continued == SelectSeq(output_sites,
                                         LAMBDA rewritten :
                                             rewritten.call.arguments[2] = Variable("_k"))
              IN  IF in_tail_position(site)
                  THEN sites_calling(tail, site.call.function, site.call.arguments)
                           = sites_calling(continued, site.call.function,
                                           <<Variable("_s"), Variable("_k")>>
                                               \o site.call.arguments)
                  ELSE \A d \in continuations_of(site.call.name) :
                           \A m \in callers_of(module.function_definitions[d].name) :
                               /\ output_sites[m].call.function = site.call.function
                               /\ output_sites[m].call.arguments =
                                      << Variable("_s"),
                                         Variable(module.function_definitions[d].name) >>
                                          \o site.call.arguments
        /\ \A d \in SynthesizedPositions :
              Cardinality(callers_of(module.function_definitions[d].name)) = 1
        /\ Len(output_sites) = Len(input_sites)

\* C22 witness: the pass rewrote a call in tail position and a call with a user argument
\* that is not in tail position.
C22_Witness ==
    /\ CpsDone
    /\ \E j, l \in DOMAIN input_sites :
          /\ in_tail_position(input_sites[j])
          /\ ~in_tail_position(input_sites[l])
          /\ input_sites[l].call.arguments # <<>>

RECURSIVE unsplit(_)

\* The block read back from a rewritten block: the pushes are dropped, a rewritten Source
\* call regains its own arguments, a call passing a synthesized continuation regains the
\* name carried by the continuation's argument and is followed by what the continuation
\* runs after restoring its environment, and the call of `_k` closing a block becomes
\* the return it replaced.  A call passing `_k` and the return after it lose their name.
unsplit(block) ==
    LET kept == SelectSeq(block.instructions, LAMBDA instruction : instruction.i # "push")
        last == kept[Len(kept)]
        restored(instruction) ==
            IF instruction.i = "if"
            THEN [instruction EXCEPT !.then = unsplit(instruction.then),
                                     !.else = unsplit(instruction.else)]
            ELSE instruction
        before == [j \in 1..(Len(kept) - 1) |-> restored(kept[j])]
        user_arguments == SubSeq(last.arguments, 3, Len(last.arguments))
    IN  IF kept = <<>> \/ last.i # "call" \/ last.arguments = <<>>
           \/ last.arguments[1] # Variable("_s")
        THEN Block([j \in DOMAIN kept |-> restored(kept[j])], block.terminal_instruction)
        ELSE IF last.function = Variable("_k")
        THEN Block(before, Return(last.type.arguments[2], last.arguments[2]))
        ELSE IF last.arguments[2] = Variable("_k")
        THEN Block(Append(before, [last EXCEPT !.arguments = user_arguments, !.name = ""]),
                   Return(last.type.result, Variable("")))
        ELSE LET continuation ==
                     CHOOSE definition \in Range(module.function_definitions) :
                         definition.name = last.arguments[2].name
                 rest == unsplit(continuation_rest(continuation))
             IN  Block(Append(before, [last EXCEPT !.arguments = user_arguments,
                                                   !.name = continuation.arguments[2].name])
                           \o rest.instructions,
                       rest.terminal_instruction)

RECURSIVE anonymous_tail(_)

\* A block of the input with the name of each Source call in tail position blanked, in
\* the call and in the return after it.
anonymous_tail(block) ==
    LET n == Len(block.instructions)
        instructions ==
            [j \in DOMAIN block.instructions |->
                IF block.instructions[j].i = "if"
                THEN [block.instructions[j] EXCEPT
                         !.then = anonymous_tail(block.instructions[j].then),
                         !.else = anonymous_tail(block.instructions[j].else)]
                ELSE block.instructions[j]]
    IN  IF /\ n > 0
           /\ block.instructions[n].i = "call"
           /\ block.instructions[n].type.calling_convention = "Source"
           /\ block.terminal_instruction.k = "return"
           /\ block.terminal_instruction.expression = Variable(block.instructions[n].name)
        THEN Block([instructions EXCEPT ![n].name = ""],
                   Return(block.terminal_instruction.type, Variable("")))
        ELSE Block(instructions, block.terminal_instruction)

\* C23: splitting a block at a Source call neither loses, duplicates nor reorders an
\* instruction: the instructions before the call stay in the caller block in order, and
\* those after it, with the block's terminal instruction, are in the continuation in
\* order after the pop and the deconstructions; read back along its continuations, every
\* rewritten Source definition has the instructions and terminal instructions of its
\* input.
C23_InstructionsKept ==
    CpsDone =>
        /\ \A j \in SourcePositions :
              unsplit(module.function_definitions[j].body)
                  = anonymous_tail(input.function_definitions[j].body)
        /\ \A j \in DOMAIN input_sites :
              ~in_tail_position(input_sites[j]) =>
                  \A d \in continuations_of(input_sites[j].call.name) :
                      unsplit(continuation_rest(module.function_definitions[d]))
                          = anonymous_tail(input_sites[j].rest)

\* C23 witness: the pass split a block that has an instruction before the call and
\* another Source call after it, which is split in turn.
C23_Witness ==
    /\ CpsDone
    /\ \E j \in SourcePositions :
          LET instructions == input.function_definitions[j].body.instructions
          IN  /\ Len(instructions) = 3
              /\ instructions[1].i \in {"load", "store"}
              /\ instructions[2].i = "call"
              /\ instructions[2].type.calling_convention = "Source"
              /\ instructions[3].i = "call"
              /\ instructions[3].type.calling_convention = "Source"
              /\ input.function_definitions[j].body.terminal_instruction.k = "return"
              /\ Cardinality(SynthesizedPositions) >= 2

\* The names an environment can hold, in lexicographic order of their bytes: capital
\* letters come before the underscore, which comes before small letters.
LexicographicOrder ==
    <<"X", "_k", "_s", "a", "b", "c", "p", "q", "r", "t", "x", "y">>

lexicographic_rank(name) == CHOOSE j \in DOMAIN LexicographicOrder :
                                LexicographicOrder[j] = name

\* C24: the fields of every continuation environment record are ordered
\* lexicographically by name.
C24_EnvironmentSorted ==
    CpsDone =>
        \A d \in SynthesizedPositions :
            LET environment == restored_environment(module.function_definitions[d])
            IN  \A j, l \in DOMAIN environment :
                    j < l => lexicographic_rank(environment[j][1])
                                 < lexicographic_rank(environment[l][1])

\* A block holds no Source call that still lacks the stack and the continuation.
all_calls_transformed(block) ==
    \A j \in DOMAIN source_call_sites(block) :
        LET call == source_call_sites(block)[j].call
        IN  /\ Len(call.arguments) >= 2
            /\ call.arguments[1] = Variable("_s")
            /\ call.arguments[2].e = "var"

\* The continuations synthesized for the Source calls of a block.
continuations_of_block(block) ==
    UNION {continuations_of(source_calls(block)[j].name) :
              j \in DOMAIN source_calls(block)}

\* Each block put on the worklist is shorter than the block it is split from: the body
\* of the definition for the first, the previous block of the worklist for the others.
worklist_shrinks ==
    (pc' = "worklist" /\ continuation_option' # <<>>) =>
        Len(continuation_option'[1].block.instructions)
            < (IF pc = "worklist"
               THEN Len(continuation_option[1].block.instructions)
               ELSE Len(module.function_definitions[index].body.instructions))

\* C25: the worklist of transform_block_recursively terminates; when it has, no Source
\* call is left without stack and continuation; a block without ifs that holds n Source
\* calls yields n continuations when its last call is not in tail position and n - 1
\* when it is; the block of each continuation has fewer instructions than the block it
\* was split from; and the block of every synthesized definition was transformed before
\* the definition was emitted.
C25_WorklistTerminates ==
    /\ (pc = "worklist") ~> (pc = "definitions")
    /\ <>(pc = "done")
    /\ [][worklist_shrinks]_vars
    /\ [](\A j \in DOMAIN function_definitions :
              /\ all_calls_transformed(function_definitions[j].body)
              /\ function_definitions[j].body.terminal_instruction.k = "return" =>
                     function_definitions[j].body.terminal_instruction.type = result_type)
    /\ [](CpsDone =>
              /\ \A j \in RewrittenPositions :
                    all_calls_transformed(module.function_definitions[j].body)
              /\ \A j \in SourcePositions :
                    LET body == input.function_definitions[j].body
                        sites == source_call_sites(body)
                        n == Len(sites)
                    IN  (\A l \in DOMAIN body.instructions : body.instructions[l].i # "if")
                            => Cardinality(continuations_of_block(body))
                                   = (IF n > 0 /\ in_tail_position(sites[n])
                                      THEN n - 1 ELSE n))

\* C25 witness: the worklist ran for a block without ifs that holds two Source calls, the
\* last one in tail position, and emitted the one continuation.
C25_Witness ==
    /\ CpsDone
    /\ \E j \in SourcePositions :
          LET body == input.function_definitions[j].body
              sites == source_call_sites(body)
          IN  /\ \A l \in DOMAIN body.instructions : body.instructions[l].i # "if"
              /\ Len(sites) = 2
              /\ in_tail_position(sites[2])
              /\ Cardinality(continuations_of_block(body)) = 1

RECURSIVE returns_call_result(_)

\* A block that ends in a return has a call for its last instruction and returns, with
\* the final result type, the variable that call binds; so do the arms of its ifs.
returns_call_result(block) ==
    /\ block.terminal_instruction.k = "return" =>
           /\ block.instructions # <<>>
           /\ block.instructions[Len(block.instructions)].i = "call"
           /\ block.terminal_instruction
                  = Return(result_type,
                           Variable(block.instructions[Len(block.instructions)].name))
    /\ \A j \in DOMAIN block.instructions :
          block.instructions[j].i = "if" =>
              /\ returns_call_result(block.instructions[j].then)
              /\ returns_call_result(block.instructions[j].else)

RECURSIVE block_returns(_)

\* The number of blocks that end in a return, the arms of ifs included.
block_returns(block) ==
    (IF block.terminal_instruction.k = "return" THEN 1 ELSE 0)
        + Len(Flatten([j \in DOMAIN block.instructions |->
                  IF block.instructions[j].i = "if"
                  THEN [l \in 1..(block_returns(block.instructions[j].then)
                                      + block_returns(block.instructions[j].else)) |-> l]
                  ELSE <<>>]))

\* C26: after the pass, in every rewritten Source definition and every synthesized
\* continuation, each block that ends in a return, the arms of ifs included, has a call
\* as its last instruction and returns with the final result type exactly the variable
\* that call binds.
C26_ReturnsCallResult ==
    CpsDone =>
        \A j \in RewrittenPositions :
            returns_call_result(module.function_definitions[j].body)

\* C26 witness: the pass rewrote a definition of whose blocks two end in a return, one of
\* them the arm of an if, and synthesized a continuation that ends in the call of `_k`.
C26_Witness ==
    /\ CpsDone
    /\ \E j \in SourcePositions :
          /\ block_returns(module.function_definitions[j].body) >= 2
          /\ block_returns(input.function_definitions[j].body) >= 2
    /\ \E d \in SynthesizedPositions :
          module.function_definitions[d].body.instructions[
              Len(module.function_definitions[d].body.instructions)].function
                  = Variable("_k")

\* The Source calls that sit in an arm of an if of the block, where the arm ends in a
\* branch and the call is not the arm's last instruction or not what it branches with,
\* each with the instructions that follow the if in the block.
branching_sites(block) ==
    Flatten([j \in DOMAIN block.instructions |->
        IF block.instructions[j].i = "if"
        THEN LET sites == source_call_sites(block.instructions[j].then)
                              \o source_call_sites(block.instructions[j].else)
                 after == SubSeq(block.instructions, j + 1, Len(block.instructions))
             IN  [l \in DOMAIN SelectSeq(sites, LAMBDA site :
                                                    site.rest.terminal_instruction.k
                                                        = "branch") |->
                     [site |-> SelectSeq(sites, LAMBDA site :
                                                    site.rest.terminal_instruction.k
                                                        = "branch")[l],
                      after |-> after]]
        ELSE <<>>])

\* C27: a branch is the terminal instruction of an arm of an if only: no rewritten or
\* synthesized definition has a branch as the terminal instruction of its body, also when
\* the call split off sat in an arm that ends in a branch, and then the instructions that
\* followed the if are at the end of what the continuation runs.
C27_BranchOnlyInArms ==
    CpsDone =>
        /\ \A j \in RewrittenPositions :
              module.function_definitions[j].body.terminal_instruction.k # "branch"
        /\ \A j \in SourcePositions :
              LET sites == branching_sites(input.function_definitions[j].body)
              IN  \A l \in DOMAIN sites :
                      \A d \in continuations_of(sites[l].site.call.name) :
                          LET ran == unsplit(continuation_rest(
                                                 module.function_definitions[d])).instructions
                              after == anonymous_tail(Block(sites[l].after,
                                                            Unreachable)).instructions
                          IN  /\ Len(ran) >= Len(after)
                              /\ SubSeq(ran, Len(ran) - Len(after) + 1, Len(ran)) = after

\* The names bound in a list of definitions, with the names of the definitions from
\* position `first` on.
definition_names(definitions, first) ==
    Flatten([j \in DOMAIN definitions |->
                bound_names(definitions[j].body)
                    \o (IF j >= first THEN <<definitions[j].name>> ELSE <<>>)])

\* The names fetched from the name generator so far: the names that are in the module
\* and in the definitions synthesized so far, with the name of the continuation waiting
\* on the worklist, and that are not names of the input or of the two arguments the pass
\* adds.
fetched_names ==
    SelectSeq(definition_names(module.function_definitions,
                               Len(input.function_definitions) + 1)
                  \o (IF pc = "done" THEN <<>>
                      ELSE definition_names(function_definitions, 1))
                  \o [j \in DOMAIN continuation_option |-> continuation_option[j].name],
              LAMBDA name : name \notin input_names \cup {"_s", "_k"})

\* C30: the names fetched from the name generator during one CPS transform are pairwise
\* distinct and are the prefix `_k_` followed by the number of the fetch, counted from 0:
\* after n fetches the names in use are `_k_0` to `_k_(n-1)`, each used once, so no two
\* synthesized continuations share a name and no generated result name is bound twice;
\* the input uses no name of that form.
C30_GeneratedNames ==
    round = 1 =>
        /\ Len(fetched_names) = counter
        /\ Range(fetched_names) = {generate(n) : n \in 0..(counter - 1)}
        /\ counter > 0 => \E j \in DOMAIN fetched_names : fetched_names[j] = "_k_0"
        /\ \A j, l \in DOMAIN fetched_names :
              j # l => fetched_names[j] # fetched_names[l]
        /\ \A j, l \in DOMAIN module.function_definitions :
              (j # l /\ j > Len(input.function_definitions))
                  => module.function_definitions[j].name
                         # module.function_definitions[l].name

\* C30 witness: the pass synthesized two continuations for two definitions and fetched
\* at least eight names.
C30_Witness ==
    /\ CpsDone
    /\ Cardinality(SynthesizedPositions) >= 2
    /\ Cardinality(SourcePositions) >= 2
    /\ counter >= 8

-----------------------------------------------------------------------------
(* Properties of the C calling-convention pass, checked under SpecCabi.    *)

\* The declarations, definitions and calls the pass is to rewrite: Target convention and
\* a record result that is returned in memory.
memory_returning(type) ==
    /\ type.calling_convention = "Target"
    /\ type.result.t = "record"
    /\ is_memory_class(word_bytes, type.result)

\* `longer` is `shorter` with `element` added at some position.
added_somewhere(shorter, longer, element) ==
    \E position \in 0..Len(shorter) : longer = Insert(shorter, position, element)

\* C6: with a word size other than 4 or 8 the pass returns the WordSize error carrying
\* that value before it type-checks or transforms anything, also for an ill-typed
\* module; with word size 4 or 8 it never returns the WordSize error.
C6_WordSize ==
    /\ (word_bytes \notin {4, 8} /\ pc # "word_size") =>
          /\ pc = "done"
          /\ result = Err("WordSize", word_bytes)
          /\ module = input
    /\ (word_bytes \in {4, 8} /\ ~result.ok) => result.error # "WordSize"

\* C6 witness: an ill-typed module with word size 3 got the WordSize error.
C6_Witness ==
    /\ pc = "done"
    /\ word_bytes = 3
    /\ ~type_check(input)
    /\ result = Err("WordSize", 3)

\* The pass has mapped the declarations of its first input.
DeclarationsMapped == round = 1 /\ pc \in {"definitions", "done"} /\ word_bytes \in {4, 8}
                         /\ type_check(input)

\* C7: a Target declaration with a memory-returning record result R gets a function
\* type that takes a pointer to R in addition to the original argument types and
\* returns void, with convention Target and the same name; every other declaration is
\* unchanged.
C7_Declarations ==
    DeclarationsMapped =>
        /\ Len(module.function_declarations) = Len(input.function_declarations)
        /\ \A j \in DOMAIN input.function_declarations :
              LET before == input.function_declarations[j]
                  after == module.function_declarations[j]
              IN  IF memory_returning(before.type)
                  THEN /\ after.name = before.name
                       /\ after.type.t = "fn"
                       /\ after.type.calling_convention = "Target"
                       /\ after.type.result = void_type
                       /\ added_somewhere(before.type.arguments, after.type.arguments,
                                          Pointer(before.type.result))
                  ELSE after = before

\* C7 witness: the pass returned a module in which a memory-returning declaration with
\* an argument was rewritten and another declaration was not.
C7_Witness ==
    /\ round = 1 /\ pc = "done" /\ result.ok
    /\ \E j, l \in DOMAIN input.function_declarations :
          /\ memory_returning(input.function_declarations[j].type)
          /\ input.function_declarations[j].type.arguments # <<>>
          /\ result.module.function_declarations[j] # input.function_declarations[j]
          /\ ~memory_returning(input.function_declarations[l].type)
          /\ result.module.function_declarations[l] = input.function_declarations[l]

RECURSIVE returns_stored(_, _, _)

\* Every return(R, e) of `before`, those in the arms of its ifs included, is in `after`
\* a store of e through the pointer followed by return(void, void_value); every other
\* terminal instruction is kept.
returns_stored(before, after, pointer_name) ==
    LET before_ifs == SelectSeq(before.instructions, LAMBDA instruction : instruction.i = "if")
        after_ifs == SelectSeq(after.instructions, LAMBDA instruction : instruction.i = "if")
    IN  /\ Len(before_ifs) = Len(after_ifs)
        /\ \A j \in DOMAIN before_ifs :
              /\ after_ifs[j].name = before_ifs[j].name
              /\ returns_stored(before_ifs[j].then, after_ifs[j].then, pointer_name)
              /\ returns_stored(before_ifs[j].else, after_ifs[j].else, pointer_name)
        /\ IF before.terminal_instruction.k = "return"
           THEN /\ after.terminal_instruction = Return(void_type, void_value)
                /\ after.instructions # <<>>
                /\ after.instructions[Len(after.instructions)] =
                       Store(before.terminal_instruction.type,
                             before.terminal_instruction.expression,
                             Variable(pointer_name))
           ELSE after.terminal_instruction = before.terminal_instruction

\* The definitions at positions below `index` of the first input have been mapped.
definition_mapped(j) ==
    /\ round = 1
    /\ pc \in {"definitions", "done"}
    /\ word_bytes \in {4, 8}
    /\ type_check(input)
    /\ j \in DOMAIN input.function_definitions
    /\ j < index

\* C8: a Target definition with a memory-returning record result R gets an argument
\* `{name}.p` of type pointer to R and the result type void, every return(R, e) of its
\* body, also in if arms, becomes a store of e through `{name}.p` followed by
\* return(void, void_value), and it keeps its name and calling convention.
C8_Definitions ==
    \A j \in DOMAIN input.function_definitions :
        (definition_mapped(j) /\ memory_returning(definition_type(input.function_definitions[j])))
            =>  LET before == input.function_definitions[j]
                    after == module.function_definitions[j]
                IN  /\ after.name = before.name
                    /\ after.options = before.options
                    /\ after.result_type = void_type
                    /\ added_somewhere(before.arguments, after.arguments,
                                       Argument(before.name \o ".p",
                                                Pointer(before.result_type)))
                    /\ returns_stored(before.body, after.body, before.name \o ".p")

\* C8 witness: the pass returned a module in which a memory-returning definition with a
\* user argument and a return inside an if arm was rewritten.
C8_Witness ==
    /\ round = 1 /\ pc = "done" /\ result.ok
    /\ \E j \in DOMAIN input.function_definitions :
          LET before == input.function_definitions[j]
          IN  /\ memory_returning(definition_type(before))
              /\ before.arguments # <<>>
              /\ before.body.terminal_instruction.k = "return"
              /\ \E l \in DOMAIN before.body.instructions :
                    /\ before.body.instructions[l].i = "if"
                    /\ before.body.instructions[l].then.terminal_instruction.k = "return"

\* A call the call-site rewrite is about: Target callee, memory-returning result, and a
\* variable as the callee expression.
rewritable_call(instruction) ==
    /\ instruction.i = "call"
    /\ memory_returning(instruction.type)
    /\ instruction.function.e = "var"

\* The position of the instruction of `instructions` that binds `name`, 0 if none does.
binding_position(instructions, name) ==
    IF \E j \in DOMAIN instructions :
           "name" \in DOMAIN instructions[j] /\ instructions[j].name = name
    THEN CHOOSE j \in DOMAIN instructions :
             "name" \in DOMAIN instructions[j] /\ instructions[j].name = name
    ELSE 0

\* C9: in the body of a definition, a call named x to a Target callee with
\* memory-returning result R whose callee is a variable is replaced, in place, by the
\* allocation `x_c_0` of R, the call of the same variable with the rewritten callee
\* type, the original arguments followed by `x_c_0` and the result name `x_c_1`, and
\* the load of R from `x_c_0` that binds x; the instructions keep their relative order.
C9_CallSite ==
    \A j \in DOMAIN input.function_definitions :
        definition_mapped(j) =>
            LET before == input.function_definitions[j].body.instructions
                after == module.function_definitions[j].body.instructions
            IN  /\ \A l \in DOMAIN before :
                      rewritable_call(before[l]) =>
                          LET call == before[l]
                              at == binding_position(after, call.name)
                          IN  /\ at >= 3
                              /\ ~Contains(after, call)
                              /\ after[at - 2] =
                                     AllocateStack(call.type.result, call.name \o "_c_0")
                              /\ after[at - 1].i = "call"
                              /\ after[at - 1].function = call.function
                              /\ after[at - 1].name = call.name \o "_c_1"
                              /\ after[at - 1].arguments =
                                     Append(call.arguments, Variable(call.name \o "_c_0"))
                              /\ after[at - 1].type.calling_convention = "Target"
                              /\ after[at - 1].type.result = void_type
                              /\ added_somewhere(call.type.arguments,
                                                 after[at - 1].type.arguments,
                                                 Pointer(call.type.result))
                              /\ after[at] = Load(call.type.result,
                                                  Variable(call.name \o "_c_0"), call.name)
                /\ \A l, m \in DOMAIN before :
                      (l < m /\ "name" \in DOMAIN before[l] /\ "name" \in DOMAIN before[m]) =>
                          /\ binding_position(after, before[l].name) > 0
                          /\ binding_position(after, before[l].name)
                                 < binding_position(after, before[m].name)
                /\ \A l \in DOMAIN before :
                      before[l].i \notin {"call", "if"} => Contains(after, before[l])

\* C9 witness: a definition was mapped whose body holds a rewritable call with a user
\* argument that is followed by another instruction, and one that is preceded by one.
C9_Witness ==
    \E j \in DOMAIN input.function_definitions :
        /\ definition_mapped(j)
        /\ LET before == input.function_definitions[j].body.instructions
           IN  /\ Len(before) = 2
               /\ rewritable_call(before[1])
               /\ rewritable_call(before[2])
               /\ before[2].arguments # <<>>
               /\ ~rewritable_call(module.function_definitions[j].body.instructions[1])

CabiDone == round = 1 /\ pc = "done" /\ result.ok

\* The pass has mapped every declaration and definition of its first input.
AllMapped ==
    /\ round = 1
    /\ pc \in {"definitions", "done"}
    /\ word_bytes \in {4, 8}
    /\ type_check(input)
    /\ index > Len(input.function_definitions)

module_function_types(checked) ==
    {checked.function_declarations[j].type : j \in DOMAIN checked.function_declarations}
        \cup {definition_type(checked.function_definitions[j]) :
                 j \in DOMAIN checked.function_definitions}
        \cup UNION { {call.type : call \in Range(block_calls(
                                                checked.function_definitions[j].body))} :
                     j \in DOMAIN checked.function_definitions }

\* C11: after a successful C calling-convention transform the module holds no function
\* declaration, function definition or call callee type with Target convention and a
\* memory-returning record result.
C11_NoMemoryReturningTarget ==
    CabiDone =>
        \A type \in module_function_types(result.module) : ~memory_returning(type)

\* C12: with word size 8 the pass returns a module equal to its input for every
\* well-typed module in which no Target declaration, definition or call has a
\* memory-returning record result.
C12_IdentityOnCleanModule ==
    ( /\ round = 1
      /\ pc = "done"
      /\ word_bytes = 8
      /\ type_check(input)
      /\ \A type \in module_function_types(input) : ~memory_returning(type) )
        => result = Ok(input)

\* C13: with word size 8, applying the pass to the module it returned succeeds and
\* returns that module unchanged.
C13_Idempotent ==
    (round = 2 /\ pc = "done" /\ word_bytes = 8) => result = Ok(first_output)

\* C14: when the module holds a call with Target convention and memory-returning result
\* whose callee is not a variable, the pass fails with the UnsupportedCalleeShape error.
C14_UnsupportedCalleeShape ==
    ( /\ round = 1
      /\ pc = "done"
      /\ word_bytes \in {4, 8}
      /\ type_check(input)
      /\ \E j \in DOMAIN input.function_definitions :
            \E call \in Range(block_calls(input.function_definitions[j].body)) :
                memory_returning(call.type) /\ call.function.e # "var" )
        => (~result.ok /\ result.error = "UnsupportedCalleeShape")

\* C16: the pass returns Ok(module) only if its input passed the type-check and the
\* module it built passes it; when the input fails the check the result is that error,
\* when the built module fails it the result is that error, and an error carries no
\* module.
C16_TypeChecked ==
    (round = 1 /\ pc = "done" /\ word_bytes \in {4, 8}) =>
        /\ result.ok <=> (type_check(input) /\ type_check(module))
        /\ result.ok => (result.module = module /\ type_check(result.module))
        /\ ~type_check(input) => (result = Err("TypeCheck", "input") /\ module = input)
        /\ (type_check(input) /\ ~type_check(module)) => result = Err("TypeCheck", "output")
        /\ ~result.ok => "module" \notin DOMAIN result

\* C16 witness: the pass has returned a module that it rewrote.
C16_Witness ==
    /\ round = 1 /\ pc = "done" /\ result.ok
    /\ result.module # input

\* C28: the rewrite of call sites applies at any depth: a call to a Target callee with a
\* memory-returning result whose callee is a variable is rewritten in the arms of ifs as
\* it is at the top of a body, so none is left in a mapped definition and each has become
\* the call named `x_c_1` that passes the pointer `x_c_0`.
C28_NestedCallSites ==
    AllMapped =>
        \A j \in DOMAIN input.function_definitions :
            LET before == block_calls(input.function_definitions[j].body)
                after == block_calls(module.function_definitions[j].body)
            IN  /\ \A l \in DOMAIN after : ~rewritable_call(after[l])
                /\ \A l \in DOMAIN before :
                      rewritable_call(before[l]) =>
                          \E m \in DOMAIN after :
                              /\ after[m].name = builder_name(before[l].name \o "_c_", 1)
                              /\ after[m].function = before[l].function
                              /\ after[m].arguments
                                     = Append(before[l].arguments,
                                              Variable(builder_name(before[l].name \o "_c_",
                                                                    0)))

-----------------------------------------------------------------------------
(* Properties of the CPS pass on its error path, checked under             *)
(* SpecCpsError.                                                           *)

\* C15: when the CPS transform of function definitions returns an error, every function
\* definition of the module it was given, those processed before the failing one
\* included, still equals its input value and no continuation has been appended.
C15_UnchangedOnError ==
    pc = "failed" => module = input

-----------------------------------------------------------------------------
(* Properties of the pass over Target definitions, checked under           *)
(* SpecBridge.                                                             *)

BridgeDone == pc = "collected"

\* Positions, in the returned module, of the continuations synthesized by the pass.
BridgePositions ==
    {j \in DOMAIN module.function_definitions : j > Len(input.function_definitions)}

\* The seven instructions that replace the Source call: a stack is created, a slot of
\* the callee's result type is allocated, the slot's pointer is pushed onto the stack,
\* the callee is called with the stack, a synthesized continuation and the call's
\* arguments, the slot is loaded, the stack is destroyed, and the call's name is bound
\* to the value loaded.
replaces_call(call, after) ==
    /\ after[1].i = "create_stack"
    /\ after[2] = AllocateStack(call.type.result, after[2].name)
    /\ after[3].i = "push"
    /\ after[3].stack = Variable(after[1].name)
    /\ after[3].value = Variable(after[2].name)
    /\ after[3].type = Pointer(call.type.result)
    /\ after[4].i = "call"
    /\ after[4].function = call.function
    /\ after[4].type = call.type
    /\ Len(after[4].arguments) = Len(call.arguments) + 2
    /\ after[4].arguments[1] = Variable(after[1].name)
    /\ after[4].arguments[2].e = "var"
    /\ Cardinality({d \in BridgePositions :
                       module.function_definitions[d].name = after[4].arguments[2].name})
           = 1
    /\ \A d \in BridgePositions :
          module.function_definitions[d].name = after[4].arguments[2].name =>
              module.function_definitions[d].arguments[2].type = call.type.result
    /\ SubSeq(after[4].arguments, 3, Len(after[4].arguments)) = call.arguments
    /\ after[5] = Load(call.type.result, Variable(after[2].name), after[5].name)
    /\ after[6] = [i |-> "destroy_stack", stack |-> Variable(after[1].name)]
    /\ after[7] = PassThrough(call.type.result, Variable(after[5].name), call.name)

RECURSIVE bridged(_, _)

\* The instructions `after` are the instructions `before` with every Source call
\* replaced as above, in the arms of ifs as well, and nothing else changed.
bridged(before, after) ==
    IF before = <<>>
    THEN after = <<>>
    ELSE IF Head(before).i = "call" /\ Head(before).type.calling_convention = "Source"
    THEN /\ Len(after) >= 7
         /\ replaces_call(Head(before), SubSeq(after, 1, 7))
         /\ bridged(Tail(before), SubSeq(after, 8, Len(after)))
    ELSE /\ after # <<>>
         /\ IF Head(before).i = "if"
            THEN /\ Head(after).i = "if"
                 /\ Head(after) = [Head(before) EXCEPT !.then = Head(after).then,
                                                       !.else = Head(after).else]
                 /\ Head(after).then.terminal_instruction
                        = Head(before).then.terminal_instruction
                 /\ Head(after).else.terminal_instruction
                        = Head(before).else.terminal_instruction
                 /\ bridged(Head(before).then.instructions,
                            Head(after).then.instructions)
                 /\ bridged(Head(before).else.instructions,
                            Head(after).else.instructions)
            ELSE Head(after) = Head(before)
         /\ bridged(Tail(before), Tail(after))

RECURSIVE block_instructions(_)

\* Every instruction of a block, those in the arms of its ifs included.
block_instructions(block) ==
    Flatten([j \in DOMAIN block.instructions |->
        IF block.instructions[j].i = "if"
        THEN <<block.instructions[j]>>
                 \o block_instructions(block.instructions[j].then)
                 \o block_instructions(block.instructions[j].else)
        ELSE <<block.instructions[j]>>])

\* The instructions of the definitions the pass compiled, and the Source calls of the
\* Target definitions of the input.
bridge_instructions ==
    Flatten([j \in DOMAIN input.function_definitions |->
                block_instructions(module.function_definitions[j].body)])

bridge_calls ==
    Flatten([j \in DOMAIN input.function_definitions |->
                IF input.function_definitions[j].options.calling_convention = "Target"
                THEN source_calls(input.function_definitions[j].body)
                ELSE <<>>])

\* C29: in a Target definition every Source call named x, in the arms of ifs as well, is
\* replaced by: create a stack, allocate a slot of the callee's result type, push the
\* slot's pointer, call the callee with the stack, a newly synthesized continuation and
\* the original arguments in order, load the slot, destroy the stack, bind x to the value
\* loaded.  Every stack created is destroyed exactly once, and one continuation is
\* synthesized per call: Tail, internal, with the body that pops the slot's pointer,
\* stores the result through it and returns.  A definition that is not Target is
\* unchanged.
C29_TargetCallers ==
    BridgeDone =>
        /\ \A j \in DOMAIN input.function_definitions :
              LET before == input.function_definitions[j]
                  after == module.function_definitions[j]
              IN  IF before.options.calling_convention = "Target"
                  THEN /\ after = [before EXCEPT !.body = after.body]
                       /\ after.body.terminal_instruction
                              = before.body.terminal_instruction
                       /\ bridged(before.body.instructions, after.body.instructions)
                  ELSE after = before
        /\ \A j \in DOMAIN bridge_instructions :
              bridge_instructions[j].i = "create_stack" =>
                  /\ Cardinality({l \in DOMAIN bridge_instructions :
                                     /\ bridge_instructions[l].i = "create_stack"
                                     /\ bridge_instructions[l].name
                                            = bridge_instructions[j].name}) = 1
                  /\ Cardinality({l \in DOMAIN bridge_instructions :
                                     /\ bridge_instructions[l].i = "destroy_stack"
                                     /\ bridge_instructions[l].stack
                                            = Variable(bridge_instructions[j].name)}) = 1
        /\ Cardinality(BridgePositions) = Len(bridge_calls)
        /\ \A d \in BridgePositions :
              LET continuation == module.function_definitions[d]
                  popped == continuation.body.instructions[1]
              IN  /\ continuation.options.calling_convention = "Tail"
                  /\ continuation.options.linkage = "Internal"
                  /\ continuation.arguments[1] = Argument("stack", stack_type)
                  /\ continuation.arguments[2].name = "result"
                  /\ Len(continuation.arguments) = 2
                  /\ continuation.result_type = result_type
                  /\ Len(continuation.body.instructions) = 2
                  /\ popped.i = "pop"
                  /\ popped.stack = Variable("stack")
                  /\ popped.type = Pointer(continuation.arguments[2].type)
                  /\ continuation.body.instructions[2]
                         = Store(continuation.arguments[2].type, Variable("result"),
                                 Variable(popped.name))
                  /\ continuation.body.terminal_instruction.k = "return"
                  /\ Cardinality({l \in DOMAIN bridge_instructions :
                                     /\ bridge_instructions[l].i = "call"
                                     /\ Len(bridge_instructions[l].arguments) >= 2
                                     /\ bridge_instructions[l].arguments[2]
                                            = Variable(continuation.name)}) = 1

\* C29 witness: the pass compiled a Target definition with a Source call that has two
\* arguments and a Source call in the arm of an if, beside a Source definition whose
\* own Source call it left alone.
C29_Witness ==
    /\ BridgeDone
    /\ Cardinality(BridgePositions) = 2
    /\ \E j \in DOMAIN input.function_definitions :
          /\ input.function_definitions[j].options.calling_convention = "Target"
          /\ \E l, m \in DOMAIN input.function_definitions[j].body.instructions :
                /\ input.function_definitions[j].body.instructions[l].i = "if"
                /\ input.function_definitions[j].body.instructions[m].i = "call"
                /\ Len(input.function_definitions[j].body.instructions[m].arguments) = 2
    /\ \E j \in DOMAIN input.function_definitions :
          /\ input.function_definitions[j].options.calling_convention = "Source"
          /\ source_calls(module.function_definitions[j].body) # <<>>

====
